---------------------------- MODULE Spec2Model ----------------------------
(***************************************************************************)
(* Krylov solver entry points of the FASP solver core:                     *)
(*   fasp_solver_dcsr_spbcgs   (safe-net BiCGStab,      spbcgs.c)          *)
(*   fasp_solver_pbcgs         (matrix-free BiCGStab,   pbcgs_mf.c)        *)
(*   fasp_solver_dcsr_pgmres   (restarted GMRES,        pgmres.c)          *)
(*   fasp_solver_bdcsr_pgmres  (block GMRES,            pgmres.c)          *)
(*   fasp_solver_dcsr_pgcg     (generalized CG,         pgcg.c)            *)
(*                                                                         *)
(* One call is in progress at a time.  The control flow of each entry      *)
(* point is translated statement by statement; one action is the set-up of *)
(* a call, one pass of a loop body, or a label (RESTORE_BESTSOL, FINISHED).*)
(*                                                                         *)
(* The matrix, the right-hand side and the preconditioner are the          *)
(* environment: every inner product and norm the code computes from them   *)
(* is an input of the step that computes it.  Real numbers are kept on an  *)
(* integer grid whose unit is maxdiff = tol*STAG_RATIO: a residual norm is *)
(* a number 0..MaxRes, BIGREAL lies above every sum the code forms, and    *)
(* "x/d < tol" is decided exactly as x*TolDen < TolNum*d (tol =            *)
(* TolNum/TolDen).  A magnitude compared with SMALLREAL is kept as "tiny"  *)
(* or "ok"; an infinity norm is kept as its decimal exponent.              *)
(*                                                                         *)
(* The schema variants of one solver (dcsr, dbsr, bdcsr, dstr) differ only *)
(* in the SpMV they call and are modelled once.                            *)
(*                                                                         *)
(* Further parts of the library have their own specification, each with    *)
(* the rest of the state idle:                                             *)
(*   SpecCore  the vector kernels (blas_vec.c), the Stokes Krylov driver   *)
(*             (itsolver_stokes.c), the block ILU preconditioner           *)
(*             (precond_bsr.c)                                             *)
(*   SpecCF    the classical Ruge-Stueben coarsening (coarsening_rs.c);    *)
(*             SpecCFLive adds the fairness of its second pass             *)
(*   SpecSG    the strength graph generate_S (coarsening_rs.c)             *)
(*   SpecCR    the compatible-relaxation coarsening (coarsening_cr.c);     *)
(*             SpecCRLive adds the fairness of its stage loop              *)
(*   SpecAMG   the life of an AMG hierarchy in fasp_solver_famg (famg.c)   *)
(*             up to fasp_amg_data_free (init.c)                           *)
(*   SpecSTR   the structured-matrix solver dispatcher (SolSTR.c) and the  *)
(*             CF-ordered Gauss-Seidel sweep (smoother_str.c)              *)
(***************************************************************************)
EXTENDS Integers, FiniteSets, Sequences, TLC

(* ------------------------------ bounds --------------------------------- *)

\* largest residual norm / vector norm on the grid
MaxRes == 2
\* largest iteration cap MaxIt a caller passes
MaxItBound == 2
\* the tolerance tol = TolNum / TolDen
TolNum == 2
TolDen == 3
\* MAX_STAG and MAX_RESTART of fasp_const.h (20 and 20 there); the solvers
\* read them only through MaxStag and MaxRestartStep, so the model scales
\* them down and every statement below is relative to them.
MAX_STAG == 2
MAX_RESTART == 2
\* largest restart length of GMRES a caller passes
MaxRestartLen == 2
\* longest vector handed to a vector kernel; largest ILU block-row count
MaxLen == 2
\* largest number of rows of the matrix handed to the coarsening
MaxRow == 3

(* --------------------------- program constants ------------------------- *)

\* error codes (fasp_const.h); only their sign and distinctness matter
ERROR_SOLVER_STAG == -42
ERROR_SOLVER_SOLSTAG == -43
ERROR_SOLVER_TOLSMALL == -44
ERROR_SOLVER_MISC == -46
ERROR_SOLVER_MAXIT == -48

\* decimal exponent of SMALLREAL = 1e-20
SMALLREAL_EXP == -20
\* decimal exponent of sol_inf_tol = 1e-16 in fasp_solver_bdcsr_pgmres
SOL_INF_TOL_BDCSR_EXP == -16

\* BIGREAL on the grid: above every residual plus maxdiff
BIGREAL == MaxRes + 2
\* maxdiff = tol*STAG_RATIO is the unit of the grid
maxdiff == 1

ResVals == 0..MaxRes
NormVals == 1..MaxRes
\* infinity norms of an iterate: below SMALLREAL, between SMALLREAL and
\* 1e-16, of ordinary size
InfNormExps == {-21, -18, 0}
StopTypes == {"STOP_REL_RES", "STOP_REL_PRECRES", "STOP_MOD_REL_RES", "other"}
Solvers == {"spbcgs", "pbcgs", "pgmres", "bdcsr_pgmres", "pgcg"}

NoRet == "none"

VARIABLES
    pc,          \* position of the call: idle, loop, restore, finished,
                 \* gm_outer, gm_cycle, gm_update, returned, crashed
    solver,      \* entry point called
    stop_type,   \* parameter stop_type
    MaxIt,       \* parameter MaxIt / maxit
    restart,     \* parameter restart (GMRES)
    iter,        \* local iter
    stag,        \* local stag
    more_step,   \* local more_step
    temp1,       \* local temp1 = (r,rho): "tiny" (|.| <= SMALLREAL) or "ok"
    absres,      \* local absres
    absres_best, \* local absres_best
    iter_best,   \* local iter_best
    normr0,      \* local normr0 / den_norm / tempb / normb (the denominator)
    u,           \* the caller's solution vector
    u_best,      \* work buffer u_best
    r_norm,      \* GMRES: local r_norm
    i,           \* GMRES: local i
    ret,         \* value returned to the caller
    \* history of the run, read by the properties only
    exit,        \* why the solve was left
    nstag,       \* stagnations detected whose recomputed residual missed tol
    nfalse,      \* false convergences detected
    minres,      \* smallest true residual of the iterates seen
    collapsed,   \* some step left an iterate with ||u||_inf <= SMALLREAL
    frees        \* how often each temporary buffer of the call was released

\* One call of a vector-algebra kernel (blas_vec.c), of the Stokes Krylov
\* driver (itsolver_stokes.c) or of the block ILU preconditioner
\* (precond_bsr.c).
VARIABLES
    op,          \* operation called: none, axpy, axpyz, dotprod,
                 \* krylov_stokes, dbsr_ilu
    arg,         \* scalar arguments of the call
    vx,          \* dvector x: [row, val]
    vy,          \* dvector y
    vz,          \* dvector z (axpyz)
    proc,        \* the calling process: running, exited, crashed
    exit_status, \* argument of exit() when the process was terminated
    status,      \* value returned to the caller
    overrun      \* the call read or wrote past the end of an array

corevars == <<op, arg, vx, vy, vz, proc, exit_status, status, overrun>>

\* One call of fasp_amg_coarsening_rs (coarsening_rs.c).
VARIABLES
    cpc,           \* position: start, measure, main, update, pass2, sparsity,
                   \* done, failed, crashed
    row,           \* A->row
    one_entry,     \* rows i of A with ia[i+1]-ia[i] <= 1
    S,             \* strength graph: S[i] = columns of row i of S
    vec,           \* vertices->val
    lambda,        \* lambda[]
    LoL,           \* list of lists, from LoL_head: <<[data, items]>>
    num_left,      \* local num_left
    col,           \* local col
    maxnode,       \* local maxnode
    maxlambda,     \* local maxlambda
    vi,            \* loop index i of step 3 and of pass 2
    ci_tilde,      \* local ci_tilde
    ci_tilde_mark, \* local ci_tilde_mark
    C_i_nonempty,  \* local C_i_nonempty
    graph_array,   \* graph_array[]
    P,             \* sparsity pattern of the interpolation
    cstatus,       \* value returned by fasp_amg_coarsening_rs
    \* history of the run, read by the properties only
    stamp,         \* stamp[v]: when v last entered a list
    clock          \* number of enter_list calls so far

cfvars == <<cpc, row, one_entry, S, vec, lambda, LoL, num_left, col, maxnode,
            maxlambda, vi, ci_tilde, ci_tilde_mark, C_i_nonempty, graph_array,
            P, cstatus, stamp, clock>>

\* One call of generate_S (coarsening_rs.c), followed row by row.
VARIABLES
    spc,           \* position: idle, rows, compress
    srow,          \* A->row
    epsilon_str,   \* param->strong_threshold, as <<numerator, denominator>>
    max_row_sum,   \* param->max_row_sum, as <<numerator, denominator>>
    si,            \* loop index i
    aj,            \* row i of A: aj[j] is A[i,j], 0 where no entry is stored
    SJA            \* row i of S after step 1: the columns not set to -1

sgvars == <<spc, srow, epsilon_str, max_row_sum, si, aj, SJA>>

\* One call of fasp_amg_coarsening_cr (coarsening_cr.c).
VARIABLES
    rpc,           \* position: idle, stage, rho, indset, done, crashed
    i_n,           \* parameter i_n
    ja,            \* ja[v]: the columns of row v of A, in the order stored
    cf,            \* cf[]
    unz,           \* the rows v with u[v] nonzero after the relaxation
    rho_gt,        \* rho > tg
    nc,            \* local nc
    nstage,        \* local ns
    ma,            \* ma[]
    head,          \* the stacks of indset: head[m] lists the stack of measure m
    istack,        \* local istack of indset
    stack_size,    \* local stack_size of indset
    rret,          \* value returned by fasp_amg_coarsening_cr
    vertices,      \* the ivector vertices after the call: row and val
    \* history of the run, read by the properties only
    newc           \* the coarse points chosen by the current call of indset

crvars == <<rpc, i_n, ja, cf, unz, rho_gt, nc, nstage, ma, head, istack,
            stack_size, rret, vertices, newc>>

\* One call of fasp_solver_famg (famg.c): the hierarchy created, set up,
\* used and destroyed by fasp_amg_data_free (init.c).
VARIABLES
    apc,             \* position: idle, setup, solve, free, done
    max_levels,      \* mgl[0].max_levels
    near_kernel_dim, \* mgl->near_kernel_dim
    mlevel,          \* loop index i of fasp_amg_data_free
    heap,            \* heap[b]: block b is null, live or freed
    flog,            \* the blocks released, in the order of the free calls
    astatus          \* local status of fasp_solver_famg

amgvars == <<apc, max_levels, near_kernel_dim, mlevel, heap, flog, astatus>>

\* The operations on structured matrices: fasp_solver_dstr_itsolver (SolSTR.c)
\* and fasp_smoother_dstr_gs_cf (smoother_str.c).
VARIABLES
    tpc,           \* position: idle, first, second, swept
    itsolver_type, \* itparam->itsolver_type of the last call of the dispatcher
    called,        \* the solvers that call has called
    x_val,         \* x->val, the solution vector
    iter_ret,      \* value returned by fasp_solver_dstr_itsolver: an
                   \* iteration number or an error code
    ngrid,         \* A->ngrid
    gs_nc,         \* A->nc
    gs_order,      \* parameter order of the smoother
    gs_mark,       \* mark[]
    updated        \* the rows whose u_val the sweep has written, in order

strvars == <<tpc, itsolver_type, called, x_val, iter_ret, ngrid, gs_nc,
             gs_order, gs_mark, updated>>

\* the operations outside the Krylov, vector and RS coarsening calls
auxvars == <<sgvars, crvars, amgvars, strvars>>

\* everything but the state of the Krylov call
others == <<corevars, cfvars, auxvars>>

kvars == <<pc, solver, stop_type, MaxIt, restart, iter, stag, more_step, temp1,
          absres, absres_best, iter_best, normr0, u, u_best, r_norm, i, ret,
          exit, nstag, nfalse, minres, collapsed, frees>>

vars == <<kvars, others>>

params == <<solver, stop_type, MaxIt, restart, normr0>>
gmvars == <<r_norm, i>>
bestvars == <<absres_best, iter_best, u_best>>
counters == <<stag, more_step, nstag, nfalse>>

(* ------------------------------ helpers -------------------------------- *)

Min(a, b) == IF a < b THEN a ELSE b

\* x/MAX(SMALLREAL,d) < tol; d = 0 stands for a denominator at the SMALLREAL
\* floor, where only a zero numerator passes
RelresBelowTol(x, d) ==
    IF d = 0 THEN x = 0 ELSE x * TolDen < TolNum * d

\* x/d <= tol (GMRES: r_norm <= epsilon = tol*den_norm)
RnormWithinEps(x, d) == x * TolDen <= TolNum * d

\* a vector with its true residual norm (in the norm of the stopping
\* criterion), whether the stopping criterion holds of it, whether it holds
\* a NaN, and where its content comes from: the caller's initial guess
\* ("init"), an iterate the solver computed ("iter"), or the zero fill of a
\* fresh calloc buffer ("calloc")
Vec(kind, res, sat, nan) == [kind |-> kind, res |-> res, sat |-> sat, nan |-> nan]
NaNVec == Vec("iter", BIGREAL, FALSE, TRUE)

\* the denominator of the relative residual for an iterate of norm nu
Denom(nu) == IF stop_type = "STOP_MOD_REL_RES" THEN nu ELSE normr0

\* the iterate a step produces: true residual tr, norm nu
Iterate(tr, nu) == Vec("iter", tr, RelresBelowTol(tr, Denom(nu)), FALSE)

\* norms of u that matter to the stopping criterion
NuVals == IF stop_type = "STOP_MOD_REL_RES" THEN NormVals ELSE {1}

\* (r,r) of a recomputed residual r = b - A*u
Temp1Of(v) == IF v.res = 0 THEN "tiny" ELSE "ok"

\* the temporary buffers an entry point allocates: spbcgs.c:118,
\* pbcgs_mf.c:116, pgcg.c:59 (work); pgmres.c:118-124 (work, p, hh, norms);
\* pgmres.c:368-386 (tmp, v and its m+1 vectors, y, r, z, w, H)
Buffers(s) ==
    CASE s = "pgmres" -> {"work", "p", "hh", "norms"}
      [] s = "bdcsr_pgmres" -> {"tmp", "v", "y", "r", "z", "w", "H"}
      [] OTHER -> {"work"}

\* fasp_mem_calloc of every buffer of the call
Allocated(s) == [b \in Buffers(s) |-> 0]

\* fasp_mem_free of the buffers in B
Release(f, B) == [b \in DOMAIN f |-> IF b \in B THEN f[b] + 1 ELSE f[b]]

KrylovIdle ==
    /\ pc = "idle"
    /\ solver = "none"
    /\ stop_type = "other"
    /\ MaxIt = 0
    /\ restart = 0
    /\ iter = 0
    /\ stag = 1
    /\ more_step = 1
    /\ temp1 = "ok"
    /\ absres = BIGREAL
    /\ absres_best = BIGREAL
    /\ iter_best = 0
    /\ normr0 = BIGREAL
    /\ u = Vec("init", 0, FALSE, FALSE)
    /\ u_best = Vec("calloc", BIGREAL, FALSE, FALSE)
    /\ r_norm = 0
    /\ i = 0
    /\ ret = NoRet
    /\ exit = "none"
    /\ nstag = 0
    /\ nfalse = 0
    /\ minres = BIGREAL
    /\ collapsed = FALSE
    /\ frees = [b \in {} |-> 0]

\* no kernel, driver or preconditioner has been called
CoreIdle ==
    /\ op = "none"
    /\ arg = <<>>
    /\ vx = [row |-> 0, val |-> <<>>]
    /\ vy = [row |-> 0, val |-> <<>>]
    /\ vz = [row |-> 0, val |-> <<>>]
    /\ proc = "running"
    /\ exit_status = NoRet
    /\ status = NoRet
    /\ overrun = FALSE

\* no coarsening has been called
CfIdle ==
    /\ cpc = "idle"
    /\ row = 0
    /\ one_entry = {}
    /\ S = <<>>
    /\ vec = <<>>
    /\ lambda = <<>>
    /\ LoL = <<>>
    /\ num_left = 0
    /\ col = 0
    /\ maxnode = 0
    /\ maxlambda = 0
    /\ vi = 0
    /\ ci_tilde = -1
    /\ ci_tilde_mark = -1
    /\ C_i_nonempty = 0
    /\ graph_array = <<>>
    /\ P = <<>>
    /\ cstatus = NoRet
    /\ stamp = <<>>
    /\ clock = 0

SgIdle ==
    /\ spc = "idle"
    /\ srow = 0
    /\ epsilon_str = <<0, 1>>
    /\ max_row_sum = <<1, 1>>
    /\ si = 0
    /\ aj = <<>>
    /\ SJA = {}

CrIdle ==
    /\ rpc = "idle"
    /\ i_n = 0
    /\ ja = <<>>
    /\ cf = <<>>
    /\ unz = {}
    /\ rho_gt = FALSE
    /\ nc = 0
    /\ nstage = 1
    /\ ma = <<>>
    /\ head = <<>>
    /\ istack = 0
    /\ stack_size = 0
    /\ rret = NoRet
    /\ vertices = NoRet
    /\ newc = {}

AmgIdle ==
    /\ apc = "idle"
    /\ max_levels = 0
    /\ near_kernel_dim = 0
    /\ mlevel = 0
    /\ heap = <<>>
    /\ flog = <<>>
    /\ astatus = "SUCCESS"

StrIdle ==
    /\ tpc = "idle"
    /\ itsolver_type = "SOLVER_DEFAULT"
    /\ called = <<>>
    /\ x_val = 0
    /\ iter_ret = <<NoRet, 0>>
    /\ ngrid = 0
    /\ gs_nc = 1
    /\ gs_order = 1
    /\ gs_mark = <<>>
    /\ updated = <<>>

AuxIdle == SgIdle /\ CrIdle /\ AmgIdle /\ StrIdle

Init == KrylovIdle /\ CoreIdle /\ CfIdle /\ AuxIdle

(* ----------------- fasp_solver_dcsr_spbcgs (spbcgs.c) ------------------ *)

\* the stagnation budget read one stagnation later: stag > MaxStag
StagExhaustedLate(s) == s > MAX_STAG

\* spbcgs.c:340, pbcgs_mf.c:324  if ( stag >= MaxStag )
StagExhausted(s) == s >= MAX_STAG

\* spbcgs.c:395, pbcgs_mf.c:377  if ( more_step >= MaxRestartStep )
RestartExhausted(ms) == ms >= MAX_RESTART

\* spbcgs.c:272  if ( absres < absres_best - maxdiff )
IsNewBest(ar, ab) == ar < ab - maxdiff

\* spbcgs.c:286  if ( infnormu <= sol_inf_tol ), sol_inf_tol = SMALLREAL
SolutionCollapsed(ie) == ie <= SMALLREAL_EXP

\* spbcgs.c:107-163: locals, the work buffer, the initial residual, the
\* initial convergence check.  r0 is ||b - A*u0||, nu0 is ||u0||.
SpbcgsCall ==
    /\ pc = "idle"
    /\ UNCHANGED others
    /\ \E st \in StopTypes, mi \in 0..MaxItBound, r0 \in ResVals, nu0 \in 0..MaxRes :
         LET known == st # "other"
             den == IF st = "STOP_MOD_REL_RES" THEN nu0 ELSE r0
             conv == known /\ RelresBelowTol(r0, den)
         IN  /\ solver' = "spbcgs"
             /\ frees' = Allocated("spbcgs")
             /\ stop_type' = st
             /\ MaxIt' = mi
             /\ normr0' = IF st \in {"STOP_REL_RES", "STOP_REL_PRECRES"} THEN r0 ELSE BIGREAL
             /\ u' = Vec("init", r0, conv, FALSE)
             \* u_best is calloc'ed: zeros, which is the initial guess only
             \* when the initial guess is the zero vector
             /\ u_best' = IF nu0 = 0 THEN Vec("init", r0, conv, FALSE)
                          ELSE Vec("calloc", BIGREAL, FALSE, FALSE)
             /\ minres' = r0
             /\ temp1' = IF r0 = 0 THEN "tiny" ELSE "ok"
             /\ pc' = IF known /\ ~conv THEN "loop" ELSE "finished"
             /\ exit' = IF ~known THEN "unknown_stop" ELSE IF conv THEN "init_conv" ELSE "none"
    /\ iter' = 0
    /\ UNCHANGED <<restart, stag, more_step, absres, absres_best, iter_best,
                   r_norm, i, ret, nstag, nfalse, collapsed>>

\* the assignments one pass of the spbcgs loop body ends with
SpSet(p, it, st, ms, t1, ar, ab, ib, un, ub, ex, ns, nf, co) ==
    /\ pc' = p
    /\ iter' = it
    /\ stag' = st
    /\ more_step' = ms
    /\ temp1' = t1
    /\ absres' = ar
    /\ absres_best' = ab
    /\ iter_best' = ib
    /\ u' = un
    /\ u_best' = ub
    /\ exit' = ex
    /\ nstag' = ns
    /\ nfalse' = nf
    /\ collapsed' = co
    /\ minres' = IF un.nan THEN minres ELSE Min(minres, un.res)
    /\ UNCHANGED <<params, frees, gmvars, ret>>

\* spbcgs.c:284-408: Check I, Check II, Check III for the iterate un whose
\* recurrence residual is ar (already offered to the safe net: ab, ib, ub)
SpbcgsChecks(it, un, ar, ab, ib, ub, nu, ie, co) ==
    IF SolutionCollapsed(ie)
    THEN SpSet("finished", ERROR_SOLVER_SOLSTAG, stag, more_step, temp1, ar, ab, ib,
               un, ub, "solstag", nstag, nfalse, co)
    ELSE \E rd \in BOOLEAN :
      IF stag <= MAX_STAG /\ rd
      THEN \* Check II: r = b - A*u, temp1 = (r,r), absres and relres recomputed
           IF un.sat
           THEN SpSet("restore", it, stag, more_step, Temp1Of(un), un.res, ab, ib,
                      un, ub, "conv", nstag, nfalse, co)
           ELSE IF StagExhausted(stag)
                THEN SpSet("finished", ERROR_SOLVER_STAG, stag, more_step, Temp1Of(un),
                           un.res, ab, ib, un, ub, "stag", nstag + 1, nfalse, co)
                ELSE SpSet("loop", it, stag + 1, more_step, Temp1Of(un),
                           un.res, ab, ib, un, ub, "none", nstag + 1, nfalse, co)
      ELSE IF RelresBelowTol(ar, Denom(nu))
           THEN \* Check III: r = b - A*u, absres recomputed; for
                \* STOP_REL_PRECRES relres = tempr/normr0 with tempr = (t,t)
                \* left from the omega computation (spbcgs.c:382)
                \E tt \in (IF stop_type = "STOP_REL_PRECRES" THEN ResVals ELSE {0}) :
                  LET ok == IF stop_type = "STOP_REL_PRECRES"
                            THEN RelresBelowTol(tt, normr0) ELSE un.sat
                      nf == IF un.sat THEN nfalse ELSE nfalse + 1
                  IN  IF ok
                      THEN SpSet("restore", it, stag, more_step, Temp1Of(un), un.res,
                                 ab, ib, un, ub, "conv", nstag, nf, co)
                      ELSE IF RestartExhausted(more_step)
                           THEN SpSet("finished", ERROR_SOLVER_TOLSMALL, stag, more_step,
                                      Temp1Of(un), un.res, ab, ib, un, ub, "tolsmall",
                                      nstag, nf, co)
                           ELSE SpSet("loop", it, stag, more_step + 1, Temp1Of(un),
                                      un.res, ab, ib, un, ub, "none", nstag, nf, co)
           ELSE \E t1 \in {"tiny", "ok"} :
                  SpSet("loop", it, stag, more_step, t1, ar, ab, ib, un, ub, "none",
                        nstag, nfalse, co)

\* spbcgs.c:165-410: one pass of the main loop (the test iter++ < MaxIt
\* passes)
SpbcgsStep ==
    /\ pc = "loop"
    /\ UNCHANGED others
    /\ solver = "spbcgs"
    /\ iter < MaxIt
    /\ LET it == iter + 1 IN
       \E t2ok \in BOOLEAN :
         IF ~t2ok
         THEN \* ABS(temp2) <= SMALLREAL: ITS_DIVZERO; goto FINISHED
              SpSet("finished", it, stag, more_step, temp1, absres, absres_best,
                    iter_best, u, u_best, "divzero_alpha", nstag, nfalse, collapsed)
         ELSE \E nan \in BOOLEAN :
              \E tr \in (IF nan THEN {BIGREAL} ELSE ResVals) :
              \E nu \in (IF nan THEN {1} ELSE NuVals) :
              \E ie \in (IF nan THEN {0} ELSE InfNormExps) :
                LET un == IF nan THEN NaNVec ELSE Iterate(tr, nu)
                    co == collapsed \/ SolutionCollapsed(ie)
                IN  IF temp1 = "tiny"
                    THEN \* beta: ABS(temp2) <= SMALLREAL: goto RESTORE_BESTSOL
                         \E t1 \in {"tiny", "ok"} :
                           SpSet("restore", it, stag, more_step, t1, absres, absres_best,
                                 iter_best, un, u_best, "divzero_beta", nstag, nfalse, co)
                    ELSE \E nds \in (IF nan THEN {FALSE} ELSE BOOLEAN) :
                      IF nds
                      THEN \* normd < TOL_s: ITS_SMALLSP; goto FINISHED
                           \E t1 \in {"tiny", "ok"} :
                             SpSet("finished", it, stag, more_step, t1, absres, absres_best,
                                   iter_best, un, u_best, "smallsp", nstag, nfalse, co)
                      ELSE IF un.nan
                      THEN \* fasp_dvec_isnan(u): absres = BIGREAL; goto RESTORE_BESTSOL
                           \E t1 \in {"tiny", "ok"} :
                             SpSet("restore", it, stag, more_step, t1, BIGREAL, absres_best,
                                   iter_best, un, u_best, "nan", nstag, nfalse, co)
                      ELSE \E ar \in ResVals :
                           LET nb == IsNewBest(ar, absres_best)
                               ab == IF nb THEN ar ELSE absres_best
                               ib == IF nb THEN it ELSE iter_best
                               ub == IF nb THEN un ELSE u_best
                           IN  SpbcgsChecks(it, un, ar, ab, ib, ub, nu, ie, co)

\* spbcgs.c:165: the test iter++ < MaxIt fails; control falls into
\* RESTORE_BESTSOL
SpbcgsLoopExit ==
    /\ pc = "loop"
    /\ UNCHANGED others
    /\ solver = "spbcgs"
    /\ ~(iter < MaxIt)
    /\ iter' = iter + 1
    /\ pc' = "restore"
    /\ exit' = "cap"
    /\ UNCHANGED <<params, frees, gmvars, bestvars, counters, temp1, absres, u, ret,
                   minres, collapsed>>

\* spbcgs.c:436  if ( absres > absres_best + maxdiff )
MustRestore(ar, ab) == ar > ab + maxdiff

\* whether the stopping criterion holds of u_best, whose residual is rz; the
\* zero fill has norm 0
SatOfBest(rz) ==
    IF u_best.kind # "calloc" THEN u_best.sat
    ELSE RelresBelowTol(rz, Denom(0))

\* spbcgs.c:412-440  RESTORE_BESTSOL.  The residual of u_best is recomputed;
\* for the zero fill of the buffer it is ||b||, the input rz.
SpbcgsRestore ==
    /\ pc = "restore"
    /\ UNCHANGED others
    /\ solver = "spbcgs"
    /\ IF iter # iter_best
       THEN \E rz \in (IF u_best.kind = "calloc" THEN ResVals ELSE {u_best.res}) :
              /\ absres_best' = rz
              /\ u' = IF MustRestore(absres, rz)
                      THEN [u_best EXCEPT !.res = rz, !.sat = SatOfBest(rz)]
                      ELSE u
       ELSE UNCHANGED <<absres_best, u>>
    /\ pc' = "finished"
    /\ UNCHANGED <<params, frees, gmvars, counters, iter, temp1, absres, iter_best, u_best,
                   ret, exit, minres, collapsed>>

(* -------------------- fasp_solver_pbcgs (pbcgs_mf.c) ------------------- *)

\* pbcgs_mf.c:107-163: the same set-up without a safe net; an unknown
\* stop_type takes the default branch (the relative residual), and a
\* residual below 1e-3*tol (0 on the grid) also ends the call.
PbcgsCall ==
    /\ pc = "idle"
    /\ UNCHANGED others
    /\ \E st \in StopTypes, mi \in 0..MaxItBound, r0 \in ResVals, nu0 \in 0..MaxRes :
         LET den == IF st = "STOP_MOD_REL_RES" THEN nu0 ELSE r0
             conv == RelresBelowTol(r0, den)
         IN  /\ solver' = "pbcgs"
             /\ frees' = Allocated("pbcgs")
             /\ stop_type' = st
             /\ MaxIt' = mi
             /\ normr0' = IF st = "STOP_MOD_REL_RES" THEN BIGREAL ELSE r0
             /\ u' = Vec("init", r0, conv, FALSE)
             /\ minres' = r0
             /\ temp1' = IF r0 = 0 THEN "tiny" ELSE "ok"
             /\ pc' = IF conv \/ r0 = 0 THEN "finished" ELSE "loop"
             /\ exit' = IF conv \/ r0 = 0 THEN "init_conv" ELSE "none"
    /\ iter' = 0
    /\ UNCHANGED <<restart, stag, more_step, absres, bestvars,
                   r_norm, i, ret, nstag, nfalse, collapsed>>

\* the assignments one pass of the pbcgs loop body ends with
PbSet(p, it, st, ms, t1, ar, un, ex, ns, nf, co) ==
    SpSet(p, it, st, ms, t1, ar, absres_best, iter_best, un, u_best, ex, ns, nf, co)

\* pbcgs_mf.c:176, 222: ITS_DIVZERO; return ERROR_SOLVER_MISC;
PbcgsDivZero(it, un, co, ex) ==
    /\ pc' = "returned"
    /\ ret' = ERROR_SOLVER_MISC
    /\ iter' = it
    /\ u' = un
    /\ exit' = ex
    /\ collapsed' = co
    /\ minres' = Min(minres, un.res)
    /\ UNCHANGED <<params, frees, gmvars, bestvars, counters, temp1, absres>>

\* pbcgs_mf.c:270-391: solution check, stagnation check, safe-guard check
PbcgsChecks(it, un, ar, nu, ie, co) ==
    IF SolutionCollapsed(ie)
    THEN PbSet("finished", ERROR_SOLVER_SOLSTAG, stag, more_step, temp1, ar,
               un, "solstag", nstag, nfalse, co)
    ELSE \E rd \in BOOLEAN :
      IF stag <= MAX_STAG /\ rd
      THEN IF un.sat
           THEN PbSet("finished", it, stag, more_step, Temp1Of(un), un.res,
                      un, "conv", nstag, nfalse, co)
           ELSE IF StagExhausted(stag)
                THEN PbSet("finished", ERROR_SOLVER_STAG, stag, more_step, Temp1Of(un),
                           un.res, un, "stag", nstag + 1, nfalse, co)
                ELSE PbSet("loop", it, stag + 1, more_step, Temp1Of(un),
                           un.res, un, "none", nstag + 1, nfalse, co)
      ELSE IF RelresBelowTol(ar, Denom(nu))
           THEN IF un.sat
                THEN PbSet("finished", it, stag, more_step, Temp1Of(un), un.res,
                           un, "conv", nstag, nfalse, co)
                ELSE IF RestartExhausted(more_step)
                     THEN PbSet("finished", ERROR_SOLVER_TOLSMALL, stag, more_step,
                                Temp1Of(un), un.res, un, "tolsmall",
                                nstag, nfalse + 1, co)
                     ELSE PbSet("loop", it, stag, more_step + 1, Temp1Of(un),
                                un.res, un, "none", nstag, nfalse + 1, co)
           ELSE \E t1 \in {"tiny", "ok"} :
                  PbSet("loop", it, stag, more_step, t1, ar, un, "none",
                        nstag, nfalse, co)

\* pbcgs_mf.c:186-276: a pass whose update leaves a NaN or an infinity in u
\* (from the preconditioner, the matrix-free product or an overflow).  No
\* statement looks at u: every comparison with a NaN is false, so neither the
\* tiny-update exit nor a check is taken, and temp1 no longer passes
\* ABS(.) > SMALLREAL.
PbcgsNaNStep(it) ==
    IF temp1 = "tiny"
    THEN PbcgsDivZero(it, NaNVec, collapsed, "divzero_beta")
    ELSE PbSet("loop", it, stag, more_step, "tiny", BIGREAL, NaNVec, "none",
               nstag, nfalse, collapsed)

\* pbcgs_mf.c:165-393: one pass of the main loop.  After a NaN iterate p and
\* z = A*pp are NaN, and so is the alpha denominator.
PbcgsStep ==
    /\ pc = "loop"
    /\ UNCHANGED others
    /\ solver = "pbcgs"
    /\ iter < MaxIt
    /\ LET it == iter + 1 IN
       \E t2ok \in (IF u.nan THEN {FALSE} ELSE BOOLEAN) :
         IF ~t2ok
         THEN PbcgsDivZero(it, u, collapsed, "divzero_alpha")
         ELSE \E nan \in BOOLEAN :
              IF nan THEN PbcgsNaNStep(it) ELSE
              \E tr \in ResVals, nu \in NuVals, ie \in InfNormExps :
                LET un == Iterate(tr, nu)
                    co == collapsed \/ SolutionCollapsed(ie)
                IN  IF temp1 = "tiny"
                    THEN PbcgsDivZero(it, un, co, "divzero_beta")
                    ELSE \E nds \in BOOLEAN :
                      IF nds
                      THEN \E t1 \in {"tiny", "ok"} :
                             PbSet("finished", it, stag, more_step, t1, absres,
                                   un, "smallsp", nstag, nfalse, co)
                      ELSE \E ar \in ResVals :
                             PbcgsChecks(it, un, ar, nu, ie, co)

\* pbcgs_mf.c:165: the test iter++ < MaxIt fails
PbcgsLoopExit ==
    /\ pc = "loop"
    /\ UNCHANGED others
    /\ solver = "pbcgs"
    /\ ~(iter < MaxIt)
    /\ iter' = iter + 1
    /\ pc' = "finished"
    /\ exit' = "cap"
    /\ UNCHANGED <<params, frees, gmvars, bestvars, counters, temp1, absres, u, ret,
                   minres, collapsed>>

\* whether the next update can leave a NaN or an infinity in u: it can
\* always (the matrix, the preconditioner and the divisions are inputs), and
\* it must once u holds one, since every update adds to u
StickyNaN == IF u.nan THEN {TRUE} ELSE BOOLEAN

(* --------- fasp_solver_dcsr_pgmres / dbsr / dstr (pgmres.c) ------------ *)

GmIterate(tr) == Vec("iter", tr, RnormWithinEps(tr, normr0), FALSE)

\* pgmres.c:100-153: locals, buffers, r_norm = ||b - A*x||,
\* den_norm = b_norm > 0 ? b_norm : r_norm, epsilon = tol*den_norm
PgmresCall ==
    /\ pc = "idle"
    /\ UNCHANGED others
    /\ \E mi \in 0..MaxItBound, rl \in 1..MaxRestartLen, bn \in 0..MaxRes, r0 \in ResVals :
         LET den == IF bn > 0 THEN bn ELSE r0
         IN  /\ solver' = "pgmres"
             /\ frees' = Allocated("pgmres")
             /\ MaxIt' = mi
             /\ restart' = rl
             /\ normr0' = den
             /\ r_norm' = r0
             /\ u' = Vec("init", r0, RnormWithinEps(r0, den), FALSE)
             /\ minres' = r0
    /\ iter' = 0
    /\ i' = 0
    /\ pc' = "gm_outer"
    /\ exit' = "none"
    /\ UNCHANGED <<stop_type, stag, more_step, temp1, absres, bestvars, ret,
                   nstag, nfalse, collapsed>>

\* pgmres.c:156-188: head of the outer cycle
PgmresOuter ==
    /\ pc = "gm_outer"
    /\ UNCHANGED others
    /\ solver = "pgmres"
    /\ IF ~(iter < MaxIt)
       THEN /\ pc' = "finished"
            /\ exit' = "cap"
            /\ UNCHANGED <<r_norm, i, ret, frees>>
       ELSE IF r_norm = 0
       THEN \* if (r_norm == 0.0) { free work, p, hh, norms; return iter; }
            /\ pc' = "returned"
            /\ ret' = iter
            /\ exit' = "zero_res"
            /\ frees' = Release(frees, DOMAIN frees)
            /\ UNCHANGED <<r_norm, i>>
       ELSE IF RnormWithinEps(r_norm, normr0)
       THEN \* r_norm recomputed from r = b - A*x
            /\ r_norm' = u.res
            /\ pc' = IF RnormWithinEps(u.res, normr0) THEN "finished" ELSE "gm_cycle"
            /\ exit' = IF RnormWithinEps(u.res, normr0) THEN "conv" ELSE "none"
            /\ i' = 0
            /\ UNCHANGED <<ret, frees>>
       ELSE /\ pc' = "gm_cycle"
            /\ i' = 0
            /\ UNCHANGED <<r_norm, ret, exit, frees>>
    /\ UNCHANGED <<params, bestvars, counters, iter, temp1, absres, u,
                   minres, collapsed>>

\* pgmres.c:190-250: one Arnoldi step of the restart cycle; rn is |rs[i]|
PgmresCycle ==
    /\ pc = "gm_cycle"
    /\ UNCHANGED others
    /\ solver = "pgmres"
    /\ i < restart /\ iter < MaxIt
    /\ \E rn \in ResVals :
         /\ r_norm' = rn
         /\ i' = i + 1
         /\ iter' = iter + 1
         /\ pc' = IF RnormWithinEps(rn, normr0) \/ ~(i + 1 < restart /\ iter + 1 < MaxIt)
                  THEN "gm_update" ELSE "gm_cycle"
    /\ UNCHANGED <<params, frees, bestvars, counters, temp1, absres, u, ret, exit,
                   minres, collapsed>>

\* pgmres.c:252-321: the solution update x += ..., the convergence check on
\* the recomputed residual, the residual vector for the next cycle
PgmresUpdate ==
    /\ pc = "gm_update"
    /\ UNCHANGED others
    /\ solver = "pgmres"
    /\ \E tr \in ResVals, ie \in InfNormExps, nan \in StickyNaN :
         LET un == IF nan THEN NaNVec ELSE GmIterate(tr) IN
         /\ u' = un
         /\ minres' = Min(minres, un.res)
         /\ collapsed' = (collapsed \/ SolutionCollapsed(ie))
         /\ IF RnormWithinEps(r_norm, normr0)
            THEN /\ r_norm' = un.res
                 /\ IF un.sat
                    THEN /\ pc' = "finished"
                         /\ exit' = "conv"
                         /\ UNCHANGED <<i, nfalse>>
                    ELSE /\ pc' = "gm_outer"
                         /\ i' = 0
                         /\ nfalse' = nfalse + 1
                         /\ UNCHANGED exit
            ELSE /\ pc' = "gm_outer"
                 /\ UNCHANGED <<r_norm, i, exit, nfalse>>
    /\ UNCHANGED <<params, frees, bestvars, stag, more_step, nstag, iter, temp1, absres, ret>>

(* ----------------- fasp_solver_bdcsr_pgmres (pgmres.c) ----------------- *)

\* pgmres.c:536  if (infnormu <= sol_inf_tol), sol_inf_tol = 1e-16
BdcsrSolutionCollapsed(ie) == ie <= SOL_INF_TOL_BDCSR_EXP

\* pgmres.c:359-446: buffers, tempb = MAX(SMALLREAL, ||b||), the initial
\* relative residual, the initial convergence check
BdcsrPgmresCall ==
    /\ pc = "idle"
    /\ UNCHANGED others
    /\ \E st \in StopTypes, mi \in 0..MaxItBound, bn \in 0..MaxRes,
          nu0 \in 0..MaxRes, r0 \in ResVals :
         LET den == IF st = "STOP_MOD_REL_RES" THEN nu0 ELSE bn
             conv == RelresBelowTol(r0, den)
         IN  /\ solver' = "bdcsr_pgmres"
             \* if (relres1<tol) { fasp_mem_free(r); goto FINISHED; }
             /\ frees' = IF conv THEN Release(Allocated("bdcsr_pgmres"), {"r"})
                          ELSE Allocated("bdcsr_pgmres")
             /\ stop_type' = st
             /\ MaxIt' = mi
             /\ normr0' = bn
             /\ u' = Vec("init", r0, conv, FALSE)
             /\ minres' = r0
             /\ pc' = IF conv THEN "finished" ELSE "loop"
             /\ exit' = IF conv THEN "init_conv" ELSE "none"
    /\ iter' = 0
    /\ UNCHANGED <<restart, stag, more_step, temp1, absres, bestvars,
                   r_norm, i, ret, nstag, nfalse, collapsed>>

\* pgmres.c:448-546: one pass of the loop: m Arnoldi steps, the update of u,
\* the true residual, the solution check, the convergence check
BdcsrPgmresStep ==
    /\ pc = "loop"
    /\ UNCHANGED others
    /\ solver = "bdcsr_pgmres"
    /\ iter < MaxIt
    /\ \E tr \in ResVals, nu \in NuVals, ie \in InfNormExps, nan \in StickyNaN :
         LET un == IF nan THEN NaNVec ELSE Iterate(tr, nu) IN
         /\ u' = un
         /\ absres' = un.res
         /\ minres' = Min(minres, un.res)
         /\ collapsed' = (collapsed \/ (~nan /\ SolutionCollapsed(ie)))
         /\ IF ~nan /\ BdcsrSolutionCollapsed(ie)
            THEN /\ iter' = ERROR_SOLVER_SOLSTAG
                 /\ pc' = "finished"
                 /\ exit' = "solstag"
            ELSE /\ iter' = iter + 1
                 /\ pc' = IF un.sat THEN "finished" ELSE "loop"
                 /\ exit' = IF un.sat THEN "conv" ELSE "none"
    /\ UNCHANGED <<params, frees, gmvars, bestvars, counters, temp1, ret>>

\* pgmres.c:448: the test iter++ < maxit fails
BdcsrPgmresLoopExit ==
    /\ pc = "loop"
    /\ UNCHANGED others
    /\ solver = "bdcsr_pgmres"
    /\ ~(iter < MaxIt)
    /\ iter' = iter + 1
    /\ pc' = "finished"
    /\ exit' = "cap"
    /\ UNCHANGED <<params, frees, gmvars, bestvars, counters, temp1, absres, u, ret,
                   minres, collapsed>>

(* ------------------- fasp_solver_dcsr_pgcg (pgcg.c) -------------------- *)

\* pgcg.c:99, 143-148: relres = absres/normb; relres < tol.  A zero normb
\* makes relres inf or NaN, which is not below tol.
PgcgBelowTol(x, d) == d > 0 /\ x * TolDen < TolNum * d

\* pgcg.c:54-105: the work buffer of 2*m+MaxIt+MaxIt*m reals and the first
\* (steepest descent) iteration, which writes p[0..m-1]: with MaxIt = 0 that
\* write lies outside the buffer, and the call either goes on or dies.
PgcgCall ==
    /\ pc = "idle"
    /\ UNCHANGED others
    /\ \E mi \in 0..MaxItBound, bn \in 0..MaxRes, ar \in ResVals, tr \in ResVals,
          ie \in InfNormExps, nan \in BOOLEAN :
         /\ solver' = "pgcg"
         /\ frees' = Allocated("pgcg")
         /\ MaxIt' = mi
         /\ normr0' = bn
         \* alpha = (p'r)/(p'Ap) is divided unguarded (pgcg.c:87)
         /\ absres' = IF nan THEN BIGREAL ELSE ar
         /\ u' = IF nan THEN NaNVec ELSE Vec("iter", tr, PgcgBelowTol(tr, bn), FALSE)
         /\ minres' = IF nan THEN BIGREAL ELSE tr
         /\ collapsed' = (~nan /\ SolutionCollapsed(ie))
         /\ pc' \in (IF mi = 0 THEN {"loop", "crashed"} ELSE {"loop"})
    /\ iter' = 1
    /\ exit' = "none"
    /\ UNCHANGED <<stop_type, restart, stag, more_step, temp1, bestvars,
                   r_norm, i, ret, nstag, nfalse>>

\* pgcg.c:107-153: one pass of the main loop
PgcgStep ==
    /\ pc = "loop"
    /\ UNCHANGED others
    /\ solver = "pgcg"
    /\ iter < MaxIt
    /\ \E ar \in ResVals, tr \in ResVals, ie \in InfNormExps, nan \in StickyNaN :
         \* alpha = (p'r)/(p'Ap) is divided unguarded (pgcg.c:130-131)
         /\ absres' = IF nan THEN BIGREAL ELSE ar
         /\ u' = IF nan THEN NaNVec ELSE Vec("iter", tr, PgcgBelowTol(tr, normr0), FALSE)
         /\ minres' = IF nan THEN minres ELSE Min(minres, tr)
         /\ collapsed' = (collapsed \/ (~nan /\ SolutionCollapsed(ie)))
         /\ IF ~nan /\ PgcgBelowTol(ar, normr0)
            THEN /\ pc' = "finished"
                 /\ exit' = "conv"
                 /\ UNCHANGED iter
            ELSE /\ pc' = "loop"
                 /\ iter' = iter + 1
                 /\ UNCHANGED exit
    /\ UNCHANGED <<params, frees, gmvars, bestvars, counters, temp1, ret>>

\* pgcg.c:107: the test iter < MaxIt fails
PgcgLoopExit ==
    /\ pc = "loop"
    /\ UNCHANGED others
    /\ solver = "pgcg"
    /\ ~(iter < MaxIt)
    /\ pc' = "finished"
    /\ exit' = "cap"
    /\ UNCHANGED <<params, frees, gmvars, bestvars, counters, iter, temp1, absres, u, ret,
                   minres, collapsed>>

(* ------------------------------ FINISHED ------------------------------- *)

\* spbcgs.c:452-455, pbcgs_mf.c:403-406, pgcg.c:165-168:
\*   if ( iter > MaxIt ) return ERROR_SOLVER_MAXIT; else return iter;
\* pgmres.c:323-325 (dcsr, dbsr, dstr):
\*   if (iter>=maxit) return ERROR_SOLVER_MAXIT; else return iter;
\* pgmres.c:558 (bdcsr):  return iter;
ReturnValue(s, it, mi) ==
    CASE s \in {"spbcgs", "pbcgs", "pgcg"} ->
           IF it > mi THEN ERROR_SOLVER_MAXIT ELSE it
      [] s = "pgmres" ->
           IF it >= mi THEN ERROR_SOLVER_MAXIT ELSE it
      [] OTHER -> it

\* spbcgs.c:442-455, pbcgs_mf.c:393-406, pgcg.c:156-168, pgmres.c:318-325,
\* pgmres.c:546-558: every buffer of the call is passed to fasp_mem_free,
\* then the value is returned.  Releasing a buffer a second time is undefined:
\* the call returns all the same, or the allocator aborts the process.
Finished ==
    /\ pc = "finished"
    /\ UNCHANGED others
    /\ frees' = Release(frees, DOMAIN frees)
    /\ \/ /\ pc' = "returned"
          /\ ret' = ReturnValue(solver, iter, MaxIt)
       \/ /\ \E b \in DOMAIN frees : frees[b] > 0
          /\ pc' = "crashed"
          /\ UNCHANGED ret
    /\ UNCHANGED <<params, gmvars, bestvars, counters, iter, temp1, absres, u,
                   exit, minres, collapsed>>

(* ------------------------------ properties ----------------------------- *)

Returned == pc = "returned"
BiCGStab == {"spbcgs", "pbcgs"}
ConvergedExits == {"conv", "init_conv", "zero_res"}
DivZeroExits == {"divzero_alpha", "divzero_beta"}
FailureExits == {"unknown_stop", "divzero_alpha", "divzero_beta", "smallsp", "nan", "cap"}

\* the value a vanished denominator is reported with where it is reported
\* as an error (pbcgs_mf.c:177, 223); the error taxonomy calls it DIVZERO
IsDivZeroCode(rv) == rv = ERROR_SOLVER_MISC

TypeOK ==
    /\ pc \in {"idle", "loop", "restore", "finished", "gm_outer", "gm_cycle",
               "gm_update", "returned", "crashed"}
    /\ iter \in Int
    /\ stag \in 1..(MAX_STAG + 1)
    /\ more_step \in 1..(MAX_RESTART + 1)
    /\ absres \in 0..BIGREAL
    /\ absres_best \in 0..BIGREAL
    /\ u.res \in 0..BIGREAL
    /\ (Returned => ret \in Int)

\* C1: a Krylov entry point returns a non-negative value only when the
\* stopping criterion holds of the returned solution, and every other exit
\* (unknown stopping type, vanished denominator, tiny update, NaN, iteration
\* cap) returns a negative code.
C1_NonNegativeOnlyWhenSatisfied ==
    Returned =>
        /\ (ret >= 0 => u.sat)
        /\ (exit \in FailureExits => ret < 0)

\* C2: whenever the safe-net BiCGStab returns a failure (MAXIT, SOLSTAG,
\* STAG, TOLSMALL or a division failure), the caller's vector is the initial
\* guess or a computed iterate, and no iterate seen had a residual smaller
\* than its residual by more than maxdiff.
C2_FailureLeavesBestIterate ==
    (Returned /\ solver = "spbcgs" /\ (ret < 0 \/ exit \in DivZeroExits)) =>
        /\ u.kind \in {"init", "iter"}
        /\ ~u.nan
        /\ u.res <= minres + maxdiff

\* C3: when an iterate of the safe-net BiCGStab holds a NaN after a step, the
\* best-so-far solution is restored and the call returns a negative code.
C3_NaNRestoresAndFails ==
    (Returned /\ solver = "spbcgs" /\ exit = "nan") =>
        /\ ~u.nan
        /\ ret < 0

\* C4: in every BiCGStab variant a zero alpha-denominator aborts the solve
\* and the call returns the division-failure code.
C4_ZeroAlphaDenominatorIsDivZero ==
    (Returned /\ solver \in BiCGStab /\ exit = "divzero_alpha") => IsDivZeroCode(ret)

\* C5: on every non-negative return of the safe-net BiCGStab the residual of
\* the returned solution is at most the best residual recorded plus maxdiff.
C5_SuccessWithinMaxdiffOfBest ==
    (Returned /\ solver = "spbcgs" /\ ret >= 0) => u.res <= absres_best + maxdiff

\* C6: every Krylov solver returns MAXIT when it leaves its loop because the
\* iteration cap is used up.
C6_CapReturnsMaxit ==
    (Returned /\ exit = "cap") => ret = ERROR_SOLVER_MAXIT

\* C7: a solver returns MAXIT only when the cap was reached without
\* convergence: a run that leaves its loop converged, on the last allowed
\* iteration included, returns its iteration count.
C7_MaxitOnlyWithoutConvergence ==
    Returned =>
        /\ (ret = ERROR_SOLVER_MAXIT => exit \notin ConvergedExits)
        /\ (exit \in ConvergedExits => ret = iter)

\* C8: every Krylov solver returns SOLSTAG when a step has left an iterate
\* whose infinity norm is below 1e-20.
C8_CollapsedIterateIsSolstag ==
    (Returned /\ collapsed) => ret = ERROR_SOLVER_SOLSTAG

\* C9 (as stated): the BiCGStab solvers return STAG exactly when the number
\* of stagnations detected exceeds MaxStag.
C9_StagWhenCountExceedsMaxStag ==
    (Returned /\ solver \in BiCGStab) =>
        (ret = ERROR_SOLVER_STAG <=> nstag > MAX_STAG)

\* C9 (amended): the BiCGStab solvers leave with STAG exactly at the
\* MaxStag-th stagnation whose recomputed residual misses the tolerance:
\* each of the first MaxStag-1 leads to a restart (stag is incremented and
\* the loop goes on), none of them ends the solve with STAG, and STAG is the
\* value returned.
C9_StagAtMaxStagthStagnation ==
    solver \in BiCGStab =>
        /\ nstag <= MAX_STAG
        /\ (exit = "stag" <=> nstag = MAX_STAG)
        /\ (exit # "stag" => stag = nstag + 1)
        /\ (Returned => (ret = ERROR_SOLVER_STAG <=> exit = "stag"))

\* C9, the case: a BiCGStab call has returned STAG after MaxStag-1 restarts
C9_StagReturned ==
    /\ Returned
    /\ solver \in BiCGStab
    /\ ret = ERROR_SOLVER_STAG
    /\ stag = MAX_STAG
    /\ nstag = MAX_STAG

\* C11: no solver returns to its caller with a solution vector that holds a
\* NaN or an infinity.
C11_ReturnedSolutionIsFinite ==
    Returned => ~u.nan

\* C12: every solver call releases each temporary buffer it allocated
\* exactly once on every exit path: when the call has returned no buffer is
\* left unreleased and none was released twice.
C12_BuffersReleasedExactlyOnce ==
    Returned => \A b \in DOMAIN frees : frees[b] = 1

\* C10 (its only-if half, whatever the counting convention): the BiCGStab
\* solvers return TOLSMALL only after at least MaxRestart false convergences,
\* a false convergence being a recurrence residual below tol whose recomputed
\* true residual is not below tol.
C10_TolsmallOnlyAfterFalseConvergences ==
    (Returned /\ solver \in BiCGStab /\ ret = ERROR_SOLVER_TOLSMALL) =>
        nfalse >= MAX_RESTART

Next ==
    \/ SpbcgsCall
    \/ SpbcgsStep
    \/ SpbcgsLoopExit
    \/ SpbcgsRestore
    \/ PbcgsCall
    \/ PbcgsStep
    \/ PbcgsLoopExit
    \/ PgmresCall
    \/ PgmresOuter
    \/ PgmresCycle
    \/ PgmresUpdate
    \/ BdcsrPgmresCall
    \/ BdcsrPgmresStep
    \/ BdcsrPgmresLoopExit
    \/ PgcgCall
    \/ PgcgStep
    \/ PgcgLoopExit
    \/ Finished

Spec == Init /\ [][Next]_vars

(* ======================================================================= *)
(* Vector kernels (blas_vec.c), the Stokes Krylov driver                   *)
(* (itsolver_stokes.c) and the block ILU preconditioner (precond_bsr.c).   *)
(* One behaviour is one call; its arguments are the initial state and the  *)
(* inputs of the action.  exit() ends the calling process: proc becomes    *)
(* "exited" and nothing is returned.  An access past the end of an array   *)
(* is undefined: the call either goes on with whatever the memory holds or *)
(* the process is killed ("crashed").                                      *)
(* ======================================================================= *)

Elems == {0, 1}
Coefs == {1, 2}
DVecs == UNION {{[row |-> n, val |-> s] : s \in [1..n -> Elems]} : n \in 0..MaxLen}

PrecondTypes == {1, 2}
AMGTypes == {"CLASSIC_AMG", "SA_AMG", "other"}
\* what fasp_solver_bdcsr_itsolver hands back: an iteration count or an error
ItsolverStatus == {1, ERROR_SOLVER_MAXIT}
BlockSizes == {1, 3}

InitCore ==
    /\ KrylovIdle
    /\ CfIdle
    /\ AuxIdle
    /\ op = "none"
    /\ arg = <<>>
    /\ vx \in DVecs
    /\ vy \in DVecs
    /\ vz \in DVecs
    /\ proc = "running"
    /\ exit_status = NoRet
    /\ status = NoRet
    /\ overrun = FALSE

CoreCallable == op = "none" /\ proc = "running"

\* the first m entries of y + a*x
Axpy(a, xs, ys, m) == [k \in 1..m |-> ys[k] + a * xs[k]]

RECURSIVE Dot(_, _, _)
Dot(xs, ys, n) == IF n = 0 THEN 0 ELSE Dot(xs, ys, n - 1) + xs[n] * ys[n]

\* what a read of n entries finds in an array of fewer entries
ReadPast(ys, n) ==
    {[k \in 1..n |-> IF k <= Len(ys) THEN ys[k] ELSE g[k]] : g \in [1..n -> Elems]}

\* the outcome of undefined behaviour: the call goes on or the process dies
AfterOverrun(bad) == IF bad THEN {"running", "crashed"} ELSE {"running"}

\* fasp_blas_dvec_axpy
DvecAxpy ==
    /\ CoreCallable
    /\ \E a \in Coefs :
        /\ op' = "axpy"
        /\ arg' = <<a>>
        /\ IF vy.row - vx.row # 0
           THEN /\ proc' = "exited"
                /\ exit_status' = "ERROR_DATA_STRUCTURE"
                /\ UNCHANGED vy
           ELSE /\ vy' = [vy EXCEPT !.val = Axpy(a, vx.val, vy.val, vx.row)]
                /\ UNCHANGED <<proc, exit_status>>
    /\ UNCHANGED <<vx, vz, status, overrun, kvars, cfvars, auxvars>>

\* fasp_blas_dvec_axpyz
DvecAxpyz ==
    /\ CoreCallable
    /\ \E a \in Coefs :
        /\ op' = "axpyz"
        /\ arg' = <<a>>
        /\ IF vy.row - vx.row # 0
           THEN /\ proc' = "exited"
                /\ exit_status' = "ERROR_DATA_STRUCTURE"
                /\ UNCHANGED <<vz, overrun>>
           ELSE /\ vz' = [row |-> vx.row, val |-> Axpy(a, vx.val, vy.val, vx.row)]
                /\ overrun' = (Len(vz.val) < vx.row)
                /\ proc' \in AfterOverrun(overrun')
                /\ UNCHANGED exit_status
    /\ UNCHANGED <<vx, vy, status, kvars, cfvars, auxvars>>

\* fasp_blas_dvec_dotprod
DvecDotprod ==
    /\ CoreCallable
    /\ op' = "dotprod"
    /\ arg' = <<>>
    /\ overrun' = (vy.row < vx.row)
    /\ proc' \in AfterOverrun(overrun')
    /\ \E ys \in ReadPast(vy.val, vx.row) :
        status' = IF proc' = "running" THEN Dot(vx.val, ys, vx.row) ELSE NoRet
    /\ UNCHANGED <<vx, vy, vz, exit_status, kvars, cfvars, auxvars>>

\* fasp_solver_bdcsr_krylov_stokes
KrylovStokes ==
    /\ CoreCallable
    /\ \E pt \in PrecondTypes, at \in AMGTypes :
        /\ op' = "krylov_stokes"
        /\ arg' = <<pt, at>>
        /\ IF pt # 1
           THEN /\ proc' = "exited"
                /\ exit_status' = "ERROR_SOLVER_PRECTYPE"
                /\ UNCHANGED status
           ELSE IF at \notin {"CLASSIC_AMG", "SA_AMG"}
           THEN /\ proc' = "exited"
                /\ exit_status' = "ERROR_INPUT_PAR"
                /\ UNCHANGED status
           ELSE /\ status' \in ItsolverStatus
                /\ UNCHANGED <<proc, exit_status>>
    /\ UNCHANGED <<vx, vy, vz, overrun, kvars, cfvars, auxvars>>

\* fasp_precond_dbsr_ilu: m block rows of size nb, nwork entries of work space
PrecondDbsrIlu ==
    /\ CoreCallable
    /\ \E m \in 1..MaxLen, nb \in BlockSizes, nwork \in 0..(2 * MaxLen * 3) :
        /\ op' = "dbsr_ilu"
        /\ arg' = <<m, nb, nwork>>
        /\ IF nwork < 2 * m
           THEN /\ proc' = "exited"
                /\ exit_status' = "ERROR_ALLOC_MEM"
                /\ UNCHANGED overrun
           ELSE /\ overrun' = (nwork < 2 * m * nb)
                /\ proc' \in AfterOverrun(overrun')
                /\ UNCHANGED exit_status
    /\ UNCHANGED <<vx, vy, vz, status, kvars, cfvars, auxvars>>

(* --------------------- properties of the core calls -------------------- *)

CoreTypeOK ==
    /\ op \in {"none", "axpy", "axpyz", "dotprod", "krylov_stokes", "dbsr_ilu"}
    /\ proc \in {"running", "exited", "crashed"}
    /\ overrun \in BOOLEAN
    /\ vx \in DVecs
    /\ vy.row \in 0..MaxLen /\ Len(vy.val) = vy.row
    /\ vz.row \in 0..MaxLen
    /\ (proc = "exited") <=> (exit_status # NoRet)

TwoVectorOps == {"axpy", "axpyz", "dotprod"}

\* C13: no core operation terminates the process: whatever fails inside a
\* call (unknown preconditioner selector, unknown AMG type, work space too
\* small, vectors of different lengths), the caller is still running
\* afterwards and is handed a status.
C13_NoOperationTerminatesProcess ==
    op # "none" => proc = "running"

\* C14: a two-vector kernel (axpy, axpyz, dot product) called with vectors
\* of different lengths fails with the length-mismatch error and touches no
\* element past the end of the shorter vector.
C14_LengthMismatchFailsWithoutOverrun ==
    (op \in TwoVectorOps /\ vx.row # vy.row) =>
        (exit_status = "ERROR_DATA_STRUCTURE" /\ ~overrun)

NextCore ==
    \/ DvecAxpy
    \/ DvecAxpyz
    \/ DvecDotprod
    \/ KrylovStokes
    \/ PrecondDbsrIlu

SpecCore == InitCore /\ [][NextCore]_vars

(* ======================================================================= *)
(* Classical Ruge-Stueben coarsening (coarsening_rs.c):                    *)
(* fasp_amg_coarsening_rs -> form_coarse_level -> generate_sparsity_P.     *)
(* One behaviour is one call.  The input is the strength graph S that      *)
(* generate_S builds (no vertex depends on itself; a row of A with a       *)
(* single entry has no strong dependence) with its rows stored by          *)
(* increasing column.  The doubly linked lists of enter_list/remove_point  *)
(* are kept as the sequence of their elements from LoL_head, each with the *)
(* sequence of its vertices from head to tail.                             *)
(* ======================================================================= *)

FGPT == 0
CGPT == 1
ISPT == 2
UNPT == -1

Verts == 0..(row - 1)

Least(T) == CHOOSE a \in T : \A b \in T : a <= b

RECURSIVE Sorted(_)
Sorted(T) == IF T = {} THEN <<>> ELSE <<Least(T)>> \o Sorted(T \ {Least(T)})

\* S->JA[S->IA[j] .. S->IA[j+1]-1]
SRow(j) == Sorted(S[j])
\* ST.JA[ST.IA[j] .. ST.IA[j+1]-1] after fasp_icsr_trans(S, &ST)
STRow(j) == Sorted({k \in Verts : j \in S[k]})

StrengthGraphs(n) ==
    {g \in [0..(n - 1) -> SUBSET (0..(n - 1))] : \A v \in 0..(n - 1) : v \notin g[v]}

InitCF ==
    /\ KrylovIdle
    /\ CoreIdle
    /\ AuxIdle
    /\ cpc = "start"
    /\ row \in 1..MaxRow
    /\ S \in StrengthGraphs(row)
    /\ one_entry \in SUBSET {v \in 0..(row - 1) : S[v] = {}}
    /\ vec = [v \in 0..(row - 1) |-> UNPT]
    /\ lambda = [v \in 0..(row - 1) |-> 0]
    /\ LoL = <<>>
    /\ num_left = 0
    /\ col = 0
    /\ maxnode = 0
    /\ maxlambda = 0
    /\ vi = 0
    /\ ci_tilde = -1
    /\ ci_tilde_mark = -1
    /\ C_i_nonempty = 0
    /\ graph_array = [v \in 0..(row - 1) |-> -1]
    /\ P = <<>>
    /\ cstatus = NoRet
    /\ stamp = [v \in 0..(row - 1) |-> 0]
    /\ clock = 0

(* ----------------------- enter_list / remove_point --------------------- *)

\* enter_list, were a vertex to join the head of the list of its measure
EnterListAtHead(lol, measure, index) ==
    LET hit == {q \in 1..Len(lol) : lol[q].data <= measure}
        new == [data |-> measure, items |-> <<index>>]
    IN  IF hit = {} THEN Append(lol, new)
        ELSE LET q == Least(hit)
             IN  IF lol[q].data = measure
                 THEN [lol EXCEPT ![q].items = <<index>> \o @]
                 ELSE SubSeq(lol, 1, q - 1) \o <<new>> \o SubSeq(lol, q, Len(lol))

\* enter_list, were a new list always to go behind LoL_tail
EnterListUnordered(lol, measure, index) ==
    LET hit == {q \in 1..Len(lol) : lol[q].data = measure}
    IN  IF hit = {} THEN Append(lol, [data |-> measure, items |-> <<index>>])
        ELSE [lol EXCEPT ![Least(hit)].items = Append(@, index)]

\* enter_list: the lists stay ordered by decreasing measure from LoL_head;
\* a vertex joins the tail of the list of its measure
EnterList(lol, measure, index) ==
    LET hit == {q \in 1..Len(lol) : lol[q].data <= measure}
        new == [data |-> measure, items |-> <<index>>]
    IN  IF hit = {} THEN Append(lol, new)
        ELSE LET q == Least(hit)
             IN  IF lol[q].data = measure
                 THEN [lol EXCEPT ![q].items = Append(@, index)]
                 ELSE SubSeq(lol, 1, q - 1) \o <<new>> \o SubSeq(lol, q, Len(lol))

\* remove_point finds no list of this measure, or one that lacks the vertex
RemoveMisses(lol, measure, index) ==
    LET hit == {q \in 1..Len(lol) : lol[q].data = measure}
    IN  \/ hit = {}
        \/ \A k \in 1..Len(lol[Least(hit)].items) : lol[Least(hit)].items[k] # index

\* remove_point, were it to leave the lists as they are
RemovePointKeeps(lol, measure, index) == lol

RemovePoint(lol, measure, index) ==
    LET hit == {q \in 1..Len(lol) : lol[q].data = measure}
    IN  IF hit = {} THEN lol
        ELSE LET q == Least(hit)
             IN  IF lol[q].items = <<index>>
                 THEN SubSeq(lol, 1, q - 1) \o SubSeq(lol, q + 1, Len(lol))
                 ELSE [lol EXCEPT ![q].items = SelectSeq(@, LAMBDA e : e # index)]

(* --------------- form_coarse_level: the running state ------------------ *)

\* the arrays and counters pass 1 works on, threaded through its loops
Cur ==
    [vec |-> vec, lam |-> lambda, lol |-> LoL, num_left |-> num_left,
     stamp |-> stamp, clock |-> clock, bad |-> FALSE]

Store(M) ==
    /\ vec' = M.vec
    /\ lambda' = M.lam
    /\ LoL' = M.lol
    /\ num_left' = M.num_left
    /\ stamp' = M.stamp
    /\ clock' = M.clock

Enter(M, measure, index) ==
    [M EXCEPT !.lol = EnterList(M.lol, measure, index),
              !.stamp[index] = M.clock + 1,
              !.clock = M.clock + 1]

Remove(M, measure, index) ==
    [M EXCEPT !.lol = RemovePoint(M.lol, measure, index),
              !.bad = M.bad \/ RemoveMisses(M.lol, measure, index)]

\* remove_point(lambda[k], k); new_meas = ++lambda[k]; enter_list(new_meas, k)
Bump(M, k) ==
    Enter([Remove(M, M.lam[k], k) EXCEPT !.lam[k] = @ + 1], M.lam[k] + 1, k)

\* for (l=S->IA[j]; ...) { k=S->JA[l]; if (vec[k]==UNPT) ... }
RECURSIVE BumpUndecided(_, _)
BumpUndecided(M, ks) ==
    IF ks = <<>> THEN M
    ELSE BumpUndecided(IF M.vec[Head(ks)] = UNPT THEN Bump(M, Head(ks)) ELSE M,
                       Tail(ks))

\* step 3, the loop over the strong dependences j of a vertex i made fine
RECURSIVE RaiseNeighbours(_, _, _)
RaiseNeighbours(M, js, v) ==
    IF js = <<>> THEN M
    ELSE LET j == Head(js)
             Mr == IF M.lam[j] > 0 THEN Remove(M, M.lam[j], j) ELSE M
             M1 == IF M.vec[j] = ISPT THEN M
                   ELSE IF j < v
                   THEN Enter([Mr EXCEPT !.lam[j] = @ + 1], M.lam[j] + 1, j)
                   ELSE [M EXCEPT !.lam[j] = @ + 1]
         IN  RaiseNeighbours(M1, Tail(js), v)

\* step 3, were a vertex made fine to be counted off twice
MeasureCountedTwice(M, v) ==
    IF M.vec[v] = ISPT THEN M
    ELSE IF M.lam[v] > 0 THEN Enter(M, M.lam[v], v)
    ELSE [RaiseNeighbours([M EXCEPT !.vec[v] = FGPT], SRow(v), v)
            EXCEPT !.num_left = @ - 2]

\* step 3, the body for vertex v
Measure(M, v) ==
    IF M.vec[v] = ISPT THEN M
    ELSE IF M.lam[v] > 0 THEN Enter(M, M.lam[v], v)
    ELSE [RaiseNeighbours([M EXCEPT !.vec[v] = FGPT], SRow(v), v)
            EXCEPT !.num_left = @ - 1]

\* main loop, first inner loop: the undecided vertices that depend on maxnode
RECURSIVE MakeDependentsFine(_, _)
MakeDependentsFine(M, js) ==
    IF js = <<>> THEN M
    ELSE LET j == Head(js)
             Mf == [Remove([M EXCEPT !.vec[j] = FGPT], M.lam[j], j)
                      EXCEPT !.num_left = @ - 1]
         IN  MakeDependentsFine(IF M.vec[j] = UNPT
                                THEN BumpUndecided(Mf, SRow(j)) ELSE M,
                                Tail(js))

\* main loop, second inner loop: the undecided vertices maxnode depends on
RECURSIVE LowerInfluences(_, _)
LowerInfluences(M, js) ==
    IF js = <<>> THEN M
    ELSE LET j == Head(js)
             measure == M.lam[j]
             Mr == [Remove(M, measure, j) EXCEPT !.lam[j] = measure - 1]
             M1 == IF measure - 1 > 0 THEN Enter(Mr, measure - 1, j)
                   ELSE BumpUndecided([Mr EXCEPT !.vec[j] = FGPT,
                                                 !.num_left = @ - 1], SRow(j))
         IN  LowerInfluences(IF M.vec[j] = UNPT THEN M1 ELSE M, Tail(js))

(* ------------------ fasp_amg_coarsening_rs, pass 1 --------------------- *)

pass2vars == <<ci_tilde, ci_tilde_mark, C_i_nonempty, graph_array>>

\* fasp_amg_coarsening_rs up to step 2 of form_coarse_level
CoarseningCall ==
    /\ cpc = "start"
    /\ IF \A v \in Verts : S[v] = {}
       THEN /\ cpc' = "failed"
            /\ cstatus' = "RUN_FAIL"
            /\ UNCHANGED <<vec, lambda, num_left>>
       ELSE /\ cpc' = "measure"
            /\ lambda' = [v \in Verts |->
                            IF v \in one_entry THEN 0 ELSE Len(STRow(v))]
            /\ vec' = [v \in Verts |-> IF v \in one_entry THEN ISPT ELSE UNPT]
            /\ num_left' = Cardinality(Verts \ one_entry)
            /\ UNCHANGED cstatus
    /\ UNCHANGED <<row, one_entry, S, LoL, col, maxnode, maxlambda, vi, pass2vars,
                   P, stamp, clock, kvars, corevars, auxvars>>

\* step 3: one pass of the loop over the vertices
Pass1Measure ==
    /\ cpc = "measure"
    /\ LET M == Measure(Cur, vi)
       IN  /\ Store(M)
           /\ vi' = vi + 1
           /\ cpc' = IF M.bad THEN "crashed"
                     ELSE IF vi + 1 < row THEN "measure" ELSE "main"
    /\ UNCHANGED <<row, one_entry, S, col, maxnode, maxlambda, pass2vars, P,
                   cstatus, kvars, corevars, auxvars>>

\* main loop: maxnode=LoL_head->head becomes coarse and leaves its list
Pass1Pick ==
    /\ cpc = "main"
    /\ num_left # 0
    /\ IF LoL = <<>>
       THEN /\ cpc' = "crashed"
            /\ UNCHANGED <<vec, lambda, LoL, num_left, col, maxnode, maxlambda,
                           stamp, clock>>
       ELSE LET mn == Head(LoL[1].items)
                ml == lambda[mn]
                M == Remove([Cur EXCEPT !.vec[mn] = CGPT, !.lam[mn] = 0,
                                        !.num_left = @ - 1], ml, mn)
            IN  /\ maxnode' = mn
                /\ maxlambda' = ml
                /\ Store(M)
                /\ col' = col + 1
                /\ cpc' = IF M.bad THEN "crashed" ELSE "update"
    /\ UNCHANGED <<row, one_entry, S, vi, pass2vars, P, cstatus, kvars, corevars, auxvars>>

\* main loop: the two loops over the neighbours of maxnode
Pass1Update ==
    /\ cpc = "update"
    /\ LET M == LowerInfluences(MakeDependentsFine(Cur, STRow(maxnode)),
                                SRow(maxnode))
       IN  /\ Store(M)
           /\ cpc' = IF M.bad THEN "crashed" ELSE "main"
    /\ UNCHANGED <<row, one_entry, S, col, maxnode, maxlambda, vi, pass2vars, P,
                   cstatus, kvars, corevars, auxvars>>

\* the main loop ends; the list of lists is dropped; pass 2 is set up
Pass1Exit ==
    /\ cpc = "main"
    /\ num_left = 0
    /\ cpc' = "pass2"
    /\ LoL' = <<>>
    /\ graph_array' = [v \in Verts |-> -1]
    /\ vi' = 0
    /\ UNCHANGED <<row, one_entry, S, vec, lambda, num_left, col, maxnode,
                   maxlambda, ci_tilde, ci_tilde_mark, C_i_nonempty, P, cstatus,
                   stamp, clock, kvars, corevars, auxvars>>

(* ------------------------------ pass 2 --------------------------------- *)

\* a | b of C for the values ci_tilde_mark takes: -1 (all bits set) or >= 0
RECURSIVE BitOr(_, _)
BitOr(a, b) ==
    IF a = -1 \/ b = -1 THEN -1
    ELSE IF a = 0 THEN b
    ELSE IF b = 0 THEN a
    ELSE 2 * BitOr(a \div 2, b \div 2) + (IF a % 2 = 1 \/ b % 2 = 1 THEN 1 ELSE 0)

\* graph_array after the coarse strong neighbours of the fine vertex v are marked
MarkCoarse(v) ==
    [c \in Verts |-> IF vec[v] = FGPT /\ c \in S[v] /\ vec[c] = CGPT
                     THEN v ELSE graph_array[c]]

\* set_empty, were every pair found to share a coarse vertex
SetEmptyNever(ga, j, v) == FALSE

\* set_empty: no strong neighbour of j carries the mark of v
SetEmpty(ga, j, v) == \A index \in S[j] : ga[index] # v

\* the same, were pass 2 to find no such neighbour
UnsharedNone(ga, v) == {}

\* positions in row v of S of the fine neighbours without a common coarse one
Unshared(ga, v) ==
    {k \in 1..Len(SRow(v)) : vec[SRow(v)[k]] = FGPT /\ SetEmpty(ga, SRow(v)[k], v)}

\* col, were a tentative promotion not counted
PromotedUncounted(c) == c

\* vec[j] = CGPT; col++
Promoted(c) == c + 1

\* the loop index, were 'i--' to take effect twice
RevisitPrevious(v) == IF v > 0 THEN v - 1 ELSE v

\* the loop index after 'i--; break;' and the '++i' of the loop
Revisit(v) == v

\* one pass of the loop over the vertices
Pass2Vertex ==
    /\ cpc = "pass2"
    /\ vi < row
    /\ LET mark == BitOr(ci_tilde_mark, vi)
           ct == IF mark # 0 THEN -1 ELSE ci_tilde
           ga == MarkCoarse(vi)
       IN  /\ graph_array' = ga
           /\ IF vec[vi] # FGPT \/ Unshared(ga, vi) = {}
              THEN /\ ci_tilde_mark' = mark
                   /\ ci_tilde' = ct
                   /\ vi' = vi + 1
                   /\ UNCHANGED <<vec, col, C_i_nonempty>>
              ELSE IF C_i_nonempty # 0
              THEN /\ vec' = [v \in Verts |-> IF v = ct THEN FGPT
                                              ELSE IF v = vi THEN CGPT ELSE vec[v]]
                   /\ col' = IF ct > -1 THEN col ELSE col + 1
                   /\ ci_tilde' = -1
                   /\ ci_tilde_mark' = mark
                   /\ C_i_nonempty' = 0
                   /\ vi' = vi + 1
              ELSE /\ ci_tilde' = SRow(vi)[Least(Unshared(ga, vi))]
                   /\ ci_tilde_mark' = vi
                   /\ vec' = [vec EXCEPT ![ci_tilde'] = CGPT]
                   /\ col' = Promoted(col)
                   /\ C_i_nonempty' = 1
                   /\ vi' = Revisit(vi)
    /\ UNCHANGED <<cpc, row, one_entry, S, lambda, LoL, num_left, maxnode,
                   maxlambda, P, cstatus, stamp, clock, kvars, corevars, auxvars>>

\* form_coarse_level returns col
Pass2Exit ==
    /\ cpc = "pass2"
    /\ vi >= row
    /\ cpc' = "sparsity"
    /\ UNCHANGED <<row, one_entry, S, vec, lambda, LoL, num_left, col, maxnode,
                   maxlambda, vi, pass2vars, P, cstatus, stamp, clock, kvars,
                   corevars, auxvars>>

(* ------------------------ generate_sparsity_P -------------------------- *)

\* number of coarse vertices before v
CoarseIndex(v) == Cardinality({c \in Verts : c < v /\ vec[c] = CGPT})

\* the row of a coarse vertex, were its column the index on the coarse grid
CoarseRowRenumbered(v) == <<CoarseIndex(v)>>

\* P->JA[index]=i
CoarseRow(v) == <<v>>

\* the columns generate_sparsity_P writes for row v
PRow(v) ==
    IF vec[v] = FGPT THEN SelectSeq(SRow(v), LAMBDA k : vec[k] = CGPT)
    ELSE IF vec[v] = ISPT THEN <<>>
    ELSE CoarseRow(v)

RECURSIVE PIA(_)
PIA(k) == IF k = 0 THEN 0 ELSE PIA(k - 1) + Len(PRow(k - 1))

RECURSIVE PJA(_)
PJA(k) == IF k = 0 THEN <<>> ELSE PJA(k - 1) \o PRow(k - 1)

GenerateSparsityP ==
    /\ cpc = "sparsity"
    /\ P' = [row |-> row, col |-> col,
             IA |-> [k \in 0..row |-> PIA(k)],
             JA |-> PJA(row),
             val |-> [k \in 1..PIA(row) |-> 0]]
    /\ cstatus' = "SUCCESS"
    /\ cpc' = "done"
    /\ UNCHANGED <<row, one_entry, S, vec, lambda, LoL, num_left, col, maxnode,
                   maxlambda, vi, pass2vars, stamp, clock, kvars, corevars, auxvars>>

(* -------------------- properties of the coarsening --------------------- *)

\* form_coarse_level has returned
CfReturned == cpc \in {"sparsity", "done"}

\* the undecided vertices
Undecided == {v \in Verts : vec[v] = UNPT}

\* every undecided vertex is in the list of its measure, and nothing else is
ListsHoldUndecided ==
    cpc \in {"main", "update"} =>
        /\ \A q \in 1..Len(LoL) : \A k \in 1..Len(LoL[q].items) :
              /\ vec[LoL[q].items[k]] = UNPT
              /\ lambda[LoL[q].items[k]] = LoL[q].data
        /\ \A v \in Undecided : \E q \in 1..Len(LoL) : \E k \in 1..Len(LoL[q].items) :
              LoL[q].items[k] = v
        /\ num_left = Cardinality(Undecided)

CfTypeOK ==
    /\ cpc \in {"start", "measure", "main", "update", "pass2", "sparsity",
                "done", "failed"}
    /\ row \in 1..MaxRow
    /\ \A v \in Verts : vec[v] \in {FGPT, CGPT, ISPT, UNPT}
    /\ num_left >= 0
    /\ vi \in 0..row
    /\ ListsHoldUndecided

\* C15: when the CF-splitting has returned, every vertex labelled FINE has
\* a strong neighbour labelled COARSE (ISOLATED vertices are exempt).
C15_FineHasCoarseStrongNeighbour ==
    CfReturned =>
        \A v \in Verts : vec[v] = FGPT => \E c \in S[v] : vec[c] = CGPT

\* C15 (as the code has it): when the CF-splitting has returned, every
\* vertex labelled FINE that depends strongly on some vertex not labelled
\* ISOLATED has a strong neighbour labelled COARSE.
C15_FineWithLiveNeighbourHasCoarse ==
    CfReturned =>
        \A v \in Verts :
            (vec[v] = FGPT /\ \E k \in S[v] : vec[k] # ISPT) =>
                \E c \in S[v] : vec[c] = CGPT

\* a FINE vertex depends strongly on a vertex that is not ISOLATED
C15_FineDependsOnLive ==
    /\ CfReturned
    /\ \E v \in Verts : vec[v] = FGPT /\ \E k \in S[v] : vec[k] # ISPT

\* C16: when form_coarse_level has returned, every vertex is labelled
\* COARSE, FINE or ISOLATED and none is left undecided, whatever the
\* strength graph.
C16_SplittingIsPartition ==
    CfReturned => \A v \in Verts : vec[v] \in {CGPT, FGPT, ISPT}

\* a splitting that used all three labels
C16_AllLabelsUsed ==
    /\ cpc = "done"
    /\ \E a \in Verts, b \in Verts, c \in Verts :
          vec[a] = CGPT /\ vec[b] = FGPT /\ vec[c] = ISPT

\* C17: after pass 2, a FINE vertex and a FINE strong neighbour of it have
\* a COARSE vertex that is a strong neighbour of both.
C17_FinePairsShareCoarse ==
    CfReturned =>
        \A v \in Verts : \A j \in S[v] :
            (vec[v] = FGPT /\ vec[j] = FGPT) =>
                \E c \in S[v] \cap S[j] : vec[c] = CGPT

\* pass 2 has run and left a FINE vertex with a FINE strong neighbour
C17_FinePairRemains ==
    /\ CfReturned
    /\ \E v \in Verts : \E j \in S[v] : vec[v] = FGPT /\ vec[j] = FGPT

\* the undecided vertices of maximal lambda
Tied == {v \in Undecided : \A w \in Undecided : lambda[w] <= lambda[v]}

\* the main loop of pass 1 marks a vertex COARSE
Picks == cpc = "main" /\ cpc' = "update"

\* C18: the vertex the main loop of pass 1 marks COARSE is undecided and
\* its lambda is maximal among the undecided vertices at that moment.
C18_PickIsUndecidedOfMaximalLambda ==
    [][Picks => (vec[maxnode'] = UNPT /\ maxnode' \in Tied)]_vars

\* a vertex was picked while undecided vertices of smaller lambda remained
C18_PickedAmongSeveral ==
    /\ cpc = "update"
    /\ \E v \in Undecided : lambda[v] > 0 /\ lambda[v] < maxlambda

\* C19: among several undecided vertices of maximal lambda, pass 1 picks
\* the one that entered the list of that lambda most recently.
C19_PickIsNewestOfTied ==
    [][(Picks /\ Cardinality(Tied) > 1) =>
          \A v \in Tied : stamp[v] <= stamp[maxnode']]_vars

\* C19 (as the code has it): among several undecided vertices of maximal
\* lambda, pass 1 picks the one that has been in the list of that lambda
\* longest.
C19_PickIsOldestOfTied ==
    [][(Picks /\ Cardinality(Tied) > 1) =>
          \A v \in Tied : stamp[v] >= stamp[maxnode']]_vars

\* a vertex was picked and others of the same lambda stayed in its list
C19_PickedFromTie ==
    /\ cpc = "update"
    /\ LoL # <<>>
    /\ LoL[1].data = maxlambda

\* row v of the pattern: columns and values
PatternCols(v) == SubSeq(P.JA, P.IA[v] + 1, P.IA[v + 1])
PatternVals(v) == SubSeq(P.val, P.IA[v] + 1, P.IA[v + 1])

\* C20: in the pattern built after the CF-splitting the row of a COARSE
\* vertex has exactly one entry, of value one, in the column that is the
\* index of the vertex on the coarse grid, 0..(number of coarse vertices-1).
C20_CoarseRowIsUnitAtCoarseIndex ==
    cpc = "done" =>
        \A v \in Verts : vec[v] = CGPT =>
            /\ PatternCols(v) = <<CoarseIndex(v)>>
            /\ PatternVals(v) = <<1>>
            /\ CoarseIndex(v) \in 0..(P.col - 1)

\* C20 (as the code has it): the row of a COARSE vertex has exactly one
\* entry, in the column of the vertex's own index on the fine grid, and its
\* value is still the zero of the allocation.
C20_CoarseRowIsOwnIndex ==
    cpc = "done" =>
        \A v \in Verts : vec[v] = CGPT =>
            /\ PatternCols(v) = <<v>>
            /\ PatternVals(v) = <<0>>

\* a pattern with a COARSE vertex whose two indices differ
C20_CoarseBehindFine ==
    /\ cpc = "done"
    /\ \E v \in Verts : vec[v] = CGPT /\ CoarseIndex(v) # v

\* how often vertex v occurs in the lists
Occurrences(v) ==
    Cardinality({qk \in (1..Len(LoL)) \X (0..MaxRow + 1) :
                    /\ qk[2] \in 1..Len(LoL[qk[1]].items)
                    /\ LoL[qk[1]].items[qk[2]] = v})

\* v is in exactly one list, the one keyed by lambda[v]
InOwnList(v) ==
    /\ Occurrences(v) = 1
    /\ \E q \in 1..Len(LoL) : \E k \in 1..Len(LoL[q].items) :
          LoL[q].items[k] = v /\ LoL[q].data = lambda[v]

\* C26: throughout pass 1 the counter of undecided vertices equals the
\* number of vertices labelled undecided, every undecided vertex of positive
\* lambda is in exactly one list, the one keyed by its lambda, and no
\* decided vertex is in a list; so the list of lists is non-empty whenever
\* the counter is positive, and the counter is never negative.
C26_ListsMirrorUndecided ==
    cpc \in {"measure", "main", "update"} =>
        /\ num_left = Cardinality(Undecided)
        /\ \A v \in Undecided : lambda[v] > 0 => InOwnList(v)
        /\ \A v \in Verts \ Undecided : Occurrences(v) = 0
        /\ num_left > 0 => LoL # <<>>
        /\ num_left >= 0

\* C26 (as the code has it): the same, where during step 3 only the
\* vertices step 3 has already visited are in the lists, and the list of
\* lists is non-empty for a positive counter once the main loop runs.
C26_ListsMirrorVisitedUndecided ==
    cpc \in {"measure", "main", "update"} =>
        /\ num_left = Cardinality(Undecided)
        /\ \A v \in Undecided :
              (lambda[v] > 0 /\ (cpc = "measure" => v < vi)) => InOwnList(v)
        /\ \A v \in Undecided :
              (cpc = "measure" /\ v >= vi) => Occurrences(v) = 0
        /\ \A v \in Verts \ Undecided : Occurrences(v) = 0
        /\ (cpc # "measure" /\ num_left > 0) => LoL # <<>>
        /\ num_left >= 0

\* step 3 is under way: one vertex is in a list, another still waits
C26_Step3HalfDone ==
    /\ cpc = "measure"
    /\ \E v \in Undecided : v < vi /\ InOwnList(v)
    /\ \E v \in Undecided : v >= vi /\ lambda[v] > 0

NextCF ==
    \/ CoarseningCall
    \/ Pass1Measure
    \/ Pass1Pick
    \/ Pass1Update
    \/ Pass1Exit
    \/ Pass2Vertex
    \/ Pass2Exit
    \/ GenerateSparsityP

SpecCF == InitCF /\ [][NextCF]_vars

\* pass 2 keeps running: its loop body and its exit are taken when they can be
SpecCFLive == SpecCF /\ WF_vars(Pass2Vertex) /\ WF_vars(Pass2Exit)

(* --------------------- generate_S (coarsening_rs.c) -------------------- *)
\* the values an entry of A takes; 0 stands for an entry that is not stored
Entries == {-2, -1, 0, 1, 2}

\* param->strong_threshold and param->max_row_sum, as fractions
Thresholds == {<<1, 4>>, <<1, 2>>}
RowSumBounds == {<<9, 10>>, <<1, 1>>}

ABS(x) == IF x < 0 THEN -x ELSE x

RECURSIVE RowSum(_, _)
RowSum(r, n) == IF n = 0 THEN 0 ELSE r[n - 1] + RowSum(r, n - 1)

\* row_scale: starts from 0 and takes every entry of the row, the diagonal too
RowScale(r) == Least({0} \cup {r[j] : j \in DOMAIN r})

\* (row_sum > max_row_sum) && (max_row_sum < 1), with
\* row_sum = ABS(row_sum) / MAX(SMALLREAL, ABS(diag.val[i]))
AllWeak(r, d, mrs) ==
    /\ IF d = 0 THEN ABS(RowSum(r, srow)) > 0
                ELSE ABS(RowSum(r, srow)) * mrs[2] > mrs[1] * ABS(d)
    /\ mrs[1] < mrs[2]

\* an entry equal to the scaled minimum kept strong
WeakAboveOnly(a, rs, eps) == a * eps[2] > eps[1] * rs

\* A->val[j] >= epsilon_str * row_scale: the entry is set to -1
WeakEntry(a, rs, eps) == a * eps[2] >= eps[1] * rs

\* row d of S after step 1
StrengthRow(r, d) ==
    IF AllWeak(r, r[d], max_row_sum)
    THEN {}
    ELSE {j \in DOMAIN r \ {d} : ~WeakEntry(r[j], RowScale(r), epsilon_str)}

GenerateSCall ==
    /\ spc = "idle"
    /\ spc' = "rows"
    /\ srow' \in 1..MaxRow
    /\ epsilon_str' \in Thresholds
    /\ max_row_sum' \in RowSumBounds
    /\ si' = 0
    /\ aj' = <<>>
    /\ SJA' = {}
    /\ UNCHANGED <<kvars, corevars, cfvars, crvars, amgvars, strvars>>

\* one turn of the loop over the rows: the row read, its strong columns kept
GenerateSRow ==
    /\ spc = "rows"
    /\ si < srow
    /\ \E r \in [0..(srow - 1) -> Entries] :
           /\ aj' = r
           /\ SJA' = StrengthRow(r, si)
    /\ si' = si + 1
    /\ UNCHANGED <<spc, srow, epsilon_str, max_row_sum, kvars, corevars, cfvars, crvars, amgvars, strvars>>

\* the compression and the return
GenerateSReturn ==
    /\ spc = "rows"
    /\ si = srow
    /\ spc' = "idle"
    /\ srow' = 0
    /\ epsilon_str' = <<0, 1>>
    /\ max_row_sum' = <<1, 1>>
    /\ si' = 0
    /\ aj' = <<>>
    /\ SJA' = {}
    /\ UNCHANGED <<kvars, corevars, cfvars, crvars, amgvars, strvars>>

\* a row has just been treated: aj and SJA are those of row si - 1
RowDone == spc = "rows" /\ si > 0

OffDiagonal == DOMAIN aj \ {si - 1}

\* C21 as stated: in a row that is not all weak, an off-diagonal entry is
\* strong exactly when it is at least the threshold times the minimum of the
\* off-diagonal entries of the row.
C21_StrongIffAtLeastScaledMin ==
    (RowDone /\ ~AllWeak(aj, aj[si - 1], max_row_sum)) =>
        \A j \in OffDiagonal :
            j \in SJA <=>
                aj[j] * epsilon_str[2] >=
                    epsilon_str[1] * Least({aj[k] : k \in OffDiagonal})

\* C21, amended: in a row that is not all weak, an off-diagonal entry is
\* strong exactly when it is below the threshold times the row scale, the
\* least of 0 and all the entries of the row, the diagonal included; in a
\* row that is all weak no entry is strong.
C21_StrongIffBelowScaledMin ==
    RowDone =>
        IF AllWeak(aj, aj[si - 1], max_row_sum)
        THEN SJA = {}
        ELSE \A j \in DOMAIN aj :
                 j \in SJA <=>
                     /\ j # si - 1
                     /\ \E m \in {0} \cup {aj[k] : k \in DOMAIN aj} :
                            /\ \A k \in DOMAIN aj : m <= aj[k]
                            /\ m <= 0
                            /\ aj[j] * epsilon_str[2] < epsilon_str[1] * m

\* a row that is not all weak, with a strong entry and a negative weak one
C21_StrongAndWeakInOneRow ==
    /\ RowDone
    /\ ~AllWeak(aj, aj[si - 1], max_row_sum)
    /\ \E j, k \in OffDiagonal : j \in SJA /\ k \notin SJA /\ aj[k] < 0

SgTypeOK ==
    /\ spc \in {"idle", "rows"}
    /\ srow \in 0..MaxRow
    /\ si \in 0..srow
    /\ SJA \subseteq 0..(srow - 1)

NextSG ==
    \/ GenerateSCall
    \/ GenerateSRow
    \/ GenerateSReturn

SpecSG == Init /\ [][NextSG]_vars

(* ------------- fasp_amg_coarsening_cr (coarsening_cr.c) ---------------- *)
\* internal labeling
cand == 0
cpt == -1
fpt == 1

\* the rows of A, as the caller of fasp_amg_coarsening_cr passes them:
\* i_0 = 0 and i_n = A->row - 1; the diagonal is stored in every row, either
\* first or in the order of the columns
CsrRows(g, first) ==
    [v \in DOMAIN g |-> IF first THEN <<v>> \o Sorted(g[v])
                                 ELSE Sorted(g[v] \cup {v})]

\* the sparsity patterns tried: every pattern on up to MaxLen rows, and the
\* symmetric ones on up to MaxRow rows
Patterns(n) ==
    {g \in StrengthGraphs(n) :
        n <= MaxLen \/ \A a, b \in DOMAIN g : a \in g[b] <=> b \in g[a]}

\* for (ji = ia[i]+1; ji < ia[i+1]; ++ji): the entries after the first one
AfterFirst(v) == Tail(ja[v])

CrCall ==
    /\ rpc = "idle"
    /\ rpc' = "stage"
    /\ \E n \in 1..MaxRow :
           /\ i_n' = n - 1
           /\ \E g \in Patterns(n), first \in BOOLEAN :
                  ja' = CsrRows(g, first)
           /\ cf' = [v \in 0..(n - 1) |-> fpt]
           /\ ma' = [v \in 0..(n - 1) |-> 0]
    /\ UNCHANGED <<unz, rho_gt, nc, nstage, head, istack, stack_size, newc,
                   rret, vertices, kvars, corevars, cfvars, sgvars, amgvars, strvars>>

\* the F-points a Gauss-Seidel sweep with zero right-hand side can leave
\* nonzero: those with an entry off the diagonal
Relaxable == {v \in DOMAIN cf : cf[v] = fpt /\ Len(ja[v]) > 1}

\* the head of a stage: nc counted, u set and relaxed, rho measured
CrRelax ==
    /\ rpc = "stage"
    /\ rpc' = "rho"
    /\ nc' = Cardinality({v \in DOMAIN cf : cf[v] = cpt})
    /\ \E nz \in SUBSET Relaxable, gt \in BOOLEAN :
           /\ gt => nz # {}
           /\ ~gt => nz = {}
           /\ unz' = nz
           /\ rho_gt' = gt
    /\ UNCHANGED <<i_n, ja, cf, nstage, ma, head, istack, stack_size, newc,
                   rret, vertices, kvars, corevars, cfvars, sgvars, amgvars, strvars>>

\* cf[i] == fpt && fabs(u[i])/temp0 > temp1 && ia[i+1]-ia[i] > 1, where
\* temp0 is 0: no coarse point has a nonzero u
NoCandidates(c) == c

Candidates(c) ==
    [v \in DOMAIN c |->
        IF c[v] = fpt /\ v \in unz /\ Len(ja[v]) > 1 THEN cand ELSE c[v]]

\* the measures indset starts from; row n = i_n is not visited
Measures(c) ==
    [v \in DOMAIN c |->
        IF v >= i_n THEN ma[v]
        ELSE IF c[v] = cand
             THEN 1 + Cardinality({k \in 1..Len(AfterFirst(v)) :
                                      c[AfterFirst(v)[k]] # cpt})
             ELSE IF c[v] = cpt THEN -1 ELSE 0]

Largest(T) == CHOOSE a \in T : \A b \in T : b <= a

\* GraphAdd: index put at the tail of stack m
GraphAdd(h, index, m) == [h EXCEPT ![m] = Append(@, index)]

\* GraphRemove: index taken out of the stack that holds it
GraphRemove(h, index) ==
    [m \in DOMAIN h |-> SelectSeq(h[m], LAMBDA x : x # index)]

RECURSIVE GraphFill(_, _, _)
GraphFill(h, mm, v) ==
    IF v >= i_n THEN h
    ELSE GraphFill(IF mm[v] > 0 THEN GraphAdd(h, v, mm[v]) ELSE h, mm, v + 1)

\* the candidate set formed and the graph of indset initialised
CrSelect ==
    /\ rpc = "rho"
    /\ rho_gt
    /\ rpc' = "indset"
    /\ LET c == Candidates(cf)
           mm == Measures(c)
           top == Largest({0} \cup {mm[v] : v \in 0..(i_n - 1)})
       IN  /\ cf' = c
           /\ ma' = mm
           /\ istack' = top
           /\ stack_size' = 2 * top
           /\ head' = GraphFill([m \in 1..(2 * top) |-> <<>>], mm, 0)
    /\ newc' = {}
    /\ UNCHANGED <<i_n, ja, unz, rho_gt, nc, nstage, rret, vertices,
                   kvars, corevars, cfvars, sgvars, amgvars, strvars>>

\* the loop over jl: every candidate in the row of a new F-point moves up
RECURSIVE Raise(_, _)
Raise(st, ents) ==
    IF ents = <<>> THEN st
    ELSE LET index == Head(ents)
         IN  IF st.ma[index] > 0
             THEN LET m == st.ma[index] + 1
                  IN  Raise([st EXCEPT
                                !.ma[index] = m,
                                !.head = IF m \in DOMAIN st.head
                                         THEN GraphAdd(GraphRemove(st.head, index), index, m)
                                         ELSE GraphRemove(st.head, index),
                                !.over = st.over \/ m \notin DOMAIN st.head,
                                !.istack = IF m > st.istack THEN m ELSE st.istack],
                            Tail(ents))
             ELSE Raise(st, Tail(ents))

\* the loop over ji: every undecided entry of the row becomes an F-point
RECURSIVE Decide(_, _)
Decide(st, ents) ==
    IF ents = <<>> THEN st
    ELSE LET jj == Head(ents)
         IN  IF st.ma[jj] > -1
             THEN Decide(Raise([st EXCEPT
                                   !.head = GraphRemove(st.head, jj),
                                   !.cf[jj] = fpt,
                                   !.ma[jj] = -1],
                               AfterFirst(jj)),
                         Tail(ents))
             ELSE Decide(st, Tail(ents))

\* one turn of while (istack > 0)
CrIndsetPick ==
    /\ rpc = "indset"
    /\ istack > 0
    /\ LET v == Head(head[istack])
           st == Decide([cf |-> [cf EXCEPT ![v] = cpt],
                         ma |-> [ma EXCEPT ![v] = -1],
                         head |-> GraphRemove(head, v),
                         istack |-> istack,
                         over |-> FALSE],
                        AfterFirst(v))
       IN  /\ cf' = st.cf
           /\ ma' = st.ma
           /\ head' = st.head
           /\ istack' = Largest({0} \cup {m \in 1..st.istack :
                                            m \in DOMAIN st.head /\ st.head[m] # <<>>})
           /\ rpc' = IF st.over THEN "crashed" ELSE "indset"
           /\ newc' = newc \cup {v}
    /\ UNCHANGED <<i_n, ja, unz, rho_gt, nc, nstage, stack_size, rret, vertices,
                   kvars, corevars, cfvars, sgvars, amgvars, strvars>>

\* indset returns: the stage is over (ns is counted up to 2 * MaxRow, more
\* stages than a run on MaxRow rows has)
CrIndsetReturn ==
    /\ rpc = "indset"
    /\ istack = 0
    /\ rpc' = "stage"
    /\ nstage' = IF nstage < 2 * MaxRow THEN nstage + 1 ELSE nstage
    /\ UNCHANGED <<i_n, ja, cf, unz, rho_gt, nc, ma, head, istack, stack_size,
                   newc, rret, vertices, kvars, corevars, cfvars, sgvars, amgvars, strvars>>

\* back to fasp labeling, and the return
CrFinish ==
    /\ rpc = "rho"
    /\ ~rho_gt
    /\ rpc' = "done"
    /\ vertices' = [row |-> i_n,
                    val |-> [v \in DOMAIN cf |-> IF cf[v] = cpt THEN 1 ELSE 0]]
    /\ rret' = nc
    /\ UNCHANGED <<i_n, ja, cf, unz, rho_gt, nc, nstage, ma, head, istack,
                   stack_size, newc, kvars, corevars, cfvars, sgvars, amgvars, strvars>>

NextCR ==
    \/ CrCall
    \/ CrRelax
    \/ CrSelect
    \/ CrIndsetPick
    \/ CrIndsetReturn
    \/ CrFinish

SpecCR == Init /\ [][NextCR]_vars

CrTypeOK ==
    /\ rpc \in {"idle", "stage", "rho", "indset", "done", "crashed"}
    /\ nstage < 2 * MaxRow
    /\ rpc # "idle" =>
           /\ \A v \in DOMAIN cf : cf[v] \in {cand, cpt, fpt}
           /\ \A m \in DOMAIN head : \A k \in 1..Len(head[m]) : ma[head[m][k]] = m

CrReturned == rpc = "done"

InRow(a, b) == \E k \in 1..Len(ja[a]) : ja[a][k] = b

SymmetricPattern == \A a, b \in DOMAIN ja : InRow(a, b) <=> InRow(b, a)

\* the run goes on: every step of the call is taken when it can be
SpecCRLive ==
    /\ SpecCR
    /\ WF_vars(CrRelax)
    /\ WF_vars(CrSelect)
    /\ WF_vars(CrIndsetPick)
    /\ WF_vars(CrIndsetReturn)
    /\ WF_vars(CrFinish)

C29_VectorLabelsEveryRow ==
    CrReturned =>
        /\ rret = Cardinality({v \in 0..i_n : cf[v] = cpt})
        /\ vertices.row = i_n + 1
        /\ \A v \in 0..i_n : vertices.val[v] \in {0, 1}
        /\ rret = Cardinality({v \in 0..i_n : vertices.val[v] = 1})

\* C30: on a symmetric sparsity pattern, no two of the coarse points chosen
\* by one call of indset are adjacent in the graph of the matrix.
C30_NewCoarseIndependent ==
    (rpc # "idle" /\ SymmetricPattern) =>
        \A a, b \in newc : a # b => ~InRow(a, b)

(* ------- fasp_amg_data_free (init.c), fasp_solver_famg (famg.c) -------- *)
\* a block of memory of the hierarchy: <<level, field, part>>
IluParts == <<"ijlu", "luval", "work">>

SchwarzParts == <<"A", "iblock", "jblock", "rhsloc", "au", "al", "mask", "maxa">>

RECURSIVE PartsOf(_, _, _)
PartsOf(l, f, parts) ==
    IF parts = <<>> THEN <<>>
    ELSE <<<<l, f, Head(parts)>>>> \o PartsOf(l, f, Tail(parts))

SchwarzPartsButAu == <<"A", "iblock", "jblock", "rhsloc", "al", "mask", "maxa">>

LevelBlocksLeakingAu(l) ==
    <<<<l, "A", "">>, <<l, "P", "">>, <<l, "R", "">>, <<l, "b", "">>,
      <<l, "x", "">>, <<l, "w", "">>, <<l, "cfmark", "">>>>
        \o PartsOf(l, "LU", IluParts) \o PartsOf(l, "schwarz", SchwarzPartsButAu)

\* the blocks the loop body of fasp_amg_data_free hands to the free calls,
\* in the order of the calls
LevelBlocks(l) ==
    <<<<l, "A", "">>, <<l, "P", "">>, <<l, "R", "">>, <<l, "b", "">>,
      <<l, "x", "">>, <<l, "w", "">>, <<l, "cfmark", "">>>>
        \o PartsOf(l, "LU", IluParts) \o PartsOf(l, "schwarz", SchwarzParts)

RECURSIVE KernelBlocks(_, _)
KernelBlocks(k, dim) ==
    IF k >= dim THEN <<>>
    ELSE <<<<k, "near_kernel_basis", "[]">>>> \o KernelBlocks(k + 1, dim)

KernelArray == <<0, "near_kernel_basis", "">>
LevelArray == <<0, "mgl", "">>

Range(s) == {s[k] : k \in DOMAIN s}

\* the blocks a hierarchy of so many levels can hold
AllBlocks(levels) ==
    ((0..(levels - 1)) \X {"A", "P", "R", "b", "x", "w", "cfmark"} \X {""})
        \cup ((0..(levels - 1)) \X {"LU"} \X Range(IluParts))
        \cup ((0..(levels - 1)) \X {"schwarz"} \X Range(SchwarzParts))
        \cup ((0..(MaxLen - 1)) \X {"near_kernel_basis"} \X {"[]"})
        \cup {KernelArray, LevelArray}

\* the free calls on a sequence of blocks: a live block is released, a null
\* pointer is left alone, a block already released is released again
RECURSIVE FreeAll(_, _)
FreeAll(st, blocks) ==
    IF blocks = <<>> THEN st
    ELSE LET b == Head(blocks)
         IN  FreeAll([heap |-> IF st.heap[b] = "live"
                               THEN [st.heap EXCEPT ![b] = "freed"]
                               ELSE st.heap,
                      flog |-> IF st.heap[b] = "null" THEN st.flog
                               ELSE Append(st.flog, b)],
                     Tail(blocks))

\* fasp_amg_data_create and the copies of A, b, x into level 0
AmgCreate ==
    /\ apc = "idle"
    /\ apc' = "setup"
    /\ \E n \in 1..(MaxLen + 1) :
           /\ max_levels' = n
           /\ heap' = [b \in AllBlocks(n) |->
                          IF b \in {LevelArray, <<0, "A", "">>, <<0, "b", "">>,
                                    <<0, "x", "">>}
                          THEN "live" ELSE "null"]
    /\ UNCHANGED <<near_kernel_dim, mlevel, flog, astatus,
                   kvars, corevars, cfvars, sgvars, crvars, strvars>>

\* what a setup phase leaves allocated when it has built the levels below n
Built(n, ilu, schwarz, dim) ==
    {b \in DOMAIN heap :
        \/ b[1] < n /\ b[2] \in {"A", "b", "x", "w"}
        \/ b[1] < n - 1 /\ b[2] \in {"P", "R", "cfmark"}
        \/ b[1] = 0 /\ b[2] = "LU" /\ ilu
        \/ b[1] = 0 /\ b[2] = "schwarz" /\ schwarz
        \/ b[2] = "near_kernel_basis" /\ dim > 0 /\ (b[3] = "" \/ b[1] < dim)}

\* the setup phase: any number of levels built, with or without ILU and
\* Schwarz data, with success or with a negative status
AmgSetup ==
    /\ apc = "setup"
    /\ \E n \in 1..max_levels, ilu \in BOOLEAN, schwarz \in BOOLEAN,
          dim \in 0..MaxLen, st \in {"SUCCESS", "ERROR_SOLVER_TYPE"} :
           /\ st = "ERROR_SOLVER_TYPE" => (n = 1 /\ ~ilu /\ ~schwarz /\ dim = 0)
           /\ heap' = [b \in DOMAIN heap |->
                          IF b \in Built(n, ilu, schwarz, dim) THEN "live"
                          ELSE heap[b]]
           /\ near_kernel_dim' = dim
           /\ astatus' = st
           /\ apc' = IF st = "SUCCESS" THEN "solve" ELSE "free"
    /\ UNCHANGED <<max_levels, mlevel, flog,
                   kvars, corevars, cfvars, sgvars, crvars, strvars>>

\* fasp_famg_solve and the copy of the solution
AmgSolve ==
    /\ apc = "solve"
    /\ apc' = "free"
    /\ UNCHANGED <<max_levels, near_kernel_dim, mlevel, heap, flog, astatus,
                   kvars, corevars, cfvars, sgvars, crvars, strvars>>

\* fasp_amg_data_free: one turn of the loop over the levels
AmgFreeLevel ==
    /\ apc = "free"
    /\ mlevel < max_levels
    /\ LET st == FreeAll([heap |-> heap, flog |-> flog], LevelBlocks(mlevel))
       IN  /\ heap' = st.heap
           /\ flog' = st.flog
    /\ mlevel' = mlevel + 1
    /\ UNCHANGED <<apc, max_levels, near_kernel_dim, astatus,
                   kvars, corevars, cfvars, sgvars, crvars, strvars>>

\* fasp_amg_data_free: the near-kernel basis and the array of levels
AmgFreeRest ==
    /\ apc = "free"
    /\ mlevel = max_levels
    /\ LET st == FreeAll([heap |-> heap, flog |-> flog],
                         KernelBlocks(0, near_kernel_dim)
                             \o <<KernelArray, LevelArray>>)
       IN  /\ heap' = st.heap
           /\ flog' = st.flog
    /\ apc' = "done"
    /\ UNCHANGED <<max_levels, near_kernel_dim, mlevel, astatus,
                   kvars, corevars, cfvars, sgvars, crvars, strvars>>

NextAMG ==
    \/ AmgCreate
    \/ AmgSetup
    \/ AmgSolve
    \/ AmgFreeLevel
    \/ AmgFreeRest

SpecAMG == Init /\ [][NextAMG]_vars

Times(b) == Cardinality({k \in DOMAIN flog : flog[k] = b})

FieldOrder == <<"A", "P", "R", "b", "x", "w", "cfmark", "LU", "schwarz",
                "near_kernel_basis", "mgl">>

FieldRank(b) == CHOOSE k \in DOMAIN FieldOrder : FieldOrder[k] = b[2]

\* b is released before c in the order the claim gives: the levels one after
\* the other, in each the fields in their order, then the near-kernel basis,
\* then the array of levels
Before(b, c) ==
    LET lb == IF FieldRank(b) >= 10 THEN max_levels ELSE b[1]
        lc == IF FieldRank(c) >= 10 THEN max_levels ELSE c[1]
    IN  \/ lb < lc
        \/ lb = lc /\ FieldRank(b) < FieldRank(c)

\* C23: destroying the hierarchy releases every block it holds exactly once
\* and nothing else: level by level A, P, R, b, x, w, the CF marker, the ILU
\* data and the Schwarz data, then the near-kernel basis, then the array of
\* levels.
C23_HierarchyReleasedExactlyOnce ==
    apc = "done" =>
        /\ \A b \in DOMAIN heap :
               /\ heap[b] # "live"
               /\ Times(b) = IF heap[b] = "freed" THEN 1 ELSE 0
        /\ \A j, k \in DOMAIN flog :
               Before(flog[j], flog[k]) => j < k

\* a hierarchy of several levels with ILU, Schwarz and near-kernel data has
\* been destroyed
C23_FullHierarchyDestroyed ==
    /\ apc = "done"
    /\ max_levels > 1
    /\ Times(<<1, "A", "">>) = 1
    /\ Times(<<0, "LU", "work">>) = 1
    /\ Times(<<0, "schwarz", "au">>) = 1
    /\ Times(<<1, "near_kernel_basis", "[]">>) = 1

(* ---- fasp_solver_dstr_itsolver (SolSTR.c), GS smoother (smoother_str.c) ---- *)
\* values of itparam->itsolver_type: the five the switch knows, two it does not
Selectors == {"SOLVER_CG", "SOLVER_BiCGstab", "SOLVER_VBiCGstab", "SOLVER_GMRES",
              "SOLVER_VGMRES", "SOLVER_MinRes", "SOLVER_DEFAULT"}

DispatchDefaultsToCG(t) ==
    CASE t = "SOLVER_BiCGstab" -> "fasp_solver_dstr_pbcgs"
      [] t = "SOLVER_VBiCGstab" -> "fasp_solver_dstr_pvbcgs"
      [] t = "SOLVER_GMRES" -> "fasp_solver_dstr_pgmres"
      [] t = "SOLVER_VGMRES" -> "fasp_solver_dstr_pvgmres"
      [] OTHER -> "fasp_solver_dstr_pcg"

\* switch (itsolver_type): the solver called, "none" in the default case
Dispatch(t) ==
    CASE t = "SOLVER_CG" -> "fasp_solver_dstr_pcg"
      [] t = "SOLVER_BiCGstab" -> "fasp_solver_dstr_pbcgs"
      [] t = "SOLVER_VBiCGstab" -> "fasp_solver_dstr_pvbcgs"
      [] t = "SOLVER_GMRES" -> "fasp_solver_dstr_pgmres"
      [] t = "SOLVER_VGMRES" -> "fasp_solver_dstr_pvgmres"
      [] OTHER -> "none"

\* one call of fasp_solver_dstr_itsolver; a solver that is called leaves any
\* solution and returns an iteration number or an error
DstrItsolver ==
    /\ tpc = "idle"
    /\ \E t \in Selectors :
           /\ itsolver_type' = t
           /\ IF Dispatch(t) = "none"
              THEN /\ called' = <<>>
                   /\ x_val' = x_val
                   /\ iter_ret' = <<"ERROR_SOLVER_TYPE", 0>>
              ELSE /\ called' = <<Dispatch(t)>>
                   /\ x_val' \in 0..MaxRes
                   /\ iter_ret' \in ({"iterations"} \X (0..MaxItBound))
                                       \cup {<<"ERROR_SOLVER_MAXIT", 0>>}
    /\ UNCHANGED <<tpc, ngrid, gs_nc, gs_order, gs_mark, updated,
                   kvars, corevars, cfvars, sgvars, crvars, amgvars>>

\* fasp_smoother_dstr_gs1 with a mark array and an order other than
\* USERDEFINED: fasp_smoother_dstr_gs_cf is entered
GsCfCall ==
    /\ tpc = "idle"
    /\ \E n \in 1..MaxRow :
           /\ ngrid' = n
           /\ gs_mark' \in [0..(n - 1) -> {-1, 0, 1}]
    /\ gs_nc' \in {0, 1, 3}
    /\ gs_order' \in {1, -1}
    /\ updated' = <<>>
    /\ tpc' = IF gs_nc' >= 1 THEN "first" ELSE "swept"
    /\ UNCHANGED <<itsolver_type, called, x_val, iter_ret,
                   kvars, corevars, cfvars, sgvars, crvars, amgvars>>

\* for (point = 0; point < ngrid; point ++) if (mark[point] == class): the
\* rows updated by one half-sweep, in their order
HalfSweep(class) == Sorted({p \in 0..(ngrid - 1) : gs_mark[p] = class})

\* deal with the points marked FIRST
GsCfFirst ==
    /\ tpc = "first"
    /\ updated' = updated \o HalfSweep(gs_order)
    /\ tpc' = "second"
    /\ UNCHANGED <<ngrid, gs_nc, gs_order, gs_mark, itsolver_type, called, x_val,
                   iter_ret, kvars, corevars, cfvars, sgvars, crvars, amgvars>>

\* deal with the points marked SECOND
GsCfSecond ==
    /\ tpc = "second"
    /\ updated' = updated \o HalfSweep(-gs_order)
    /\ tpc' = "swept"
    /\ UNCHANGED <<ngrid, gs_nc, gs_order, gs_mark, itsolver_type, called, x_val,
                   iter_ret, kvars, corevars, cfvars, sgvars, crvars, amgvars>>

GsCfReturn ==
    /\ tpc = "swept"
    /\ tpc' = "idle"
    /\ ngrid' = 0
    /\ gs_nc' = 1
    /\ gs_order' = 1
    /\ gs_mark' = <<>>
    /\ updated' = <<>>
    /\ UNCHANGED <<itsolver_type, called, x_val, iter_ret,
                   kvars, corevars, cfvars, sgvars, crvars, amgvars>>

NextSTR ==
    \/ DstrItsolver
    \/ GsCfCall
    \/ GsCfFirst
    \/ GsCfSecond
    \/ GsCfReturn

SpecSTR == Init /\ [][NextSTR]_vars

\* C24: a call of the dispatcher with a selector its switch does not know
\* returns ERROR_SOLVER_TYPE, calls no solver and leaves the solution as it
\* was.
C24_UnknownSelectorLeavesSolution ==
    [][(tpc = "idle" /\ tpc' = "idle"
            /\ itsolver_type' \in {"SOLVER_MinRes", "SOLVER_DEFAULT"}) =>
           /\ iter_ret' = <<"ERROR_SOLVER_TYPE", 0>>
           /\ called' = <<>>
           /\ x_val' = x_val]_vars

\* an unknown selector after a solve that has changed the solution
C24_UnknownAfterSolve ==
    /\ itsolver_type \in {"SOLVER_MinRes", "SOLVER_DEFAULT"}
    /\ iter_ret = <<"ERROR_SOLVER_TYPE", 0>>
    /\ called = <<>>
    /\ x_val # 0

\* C25: one CF-ordered sweep updates every row exactly once, the rows of
\* the class chosen first before the rows of the other class, whatever the
\* marker vector.
C25_EveryRowUpdatedOnce ==
    (tpc = "swept" /\ gs_nc >= 1) =>
        /\ \A p \in 0..(ngrid - 1) :
               Cardinality({k \in DOMAIN updated : updated[k] = p}) = 1
        /\ \A j, k \in DOMAIN updated :
               (gs_mark[updated[j]] = gs_order /\ gs_mark[updated[k]] # gs_order) => j < k

StrTypeOK ==
    /\ tpc \in {"idle", "first", "second", "swept"}
    /\ x_val \in 0..MaxRes
    /\ (tpc = "swept" /\ \A p \in DOMAIN gs_mark : gs_mark[p] \in {1, -1} /\ gs_nc >= 1) =>
           /\ \A p \in 0..(ngrid - 1) :
                  Cardinality({k \in DOMAIN updated : updated[k] = p}) = 1
           /\ \A j, k \in DOMAIN updated :
                  (gs_mark[updated[j]] = gs_order /\ gs_mark[updated[k]] # gs_order) => j < k

=============================================================================
